---- MODULE Spec2Model ----
(***************************************************************************)
(* Model of the kvaser-remotivebus-plugin bridge service.                  *)
(*                                                                         *)
(*   Spec        the registry control loop of server.rs (serve,            *)
(*               handle_msg, handle_start_action, handle_stop_action)      *)
(*               together with the bridge tasks it spawns (the task        *)
(*               closure of handle_start_action and the await points of    *)
(*               worker.rs), in discrete time.                             *)
(*   FairSpec    Spec with the fairness the tokio scheduler provides.      *)
(*   EngineSpec  one bridge engine of worker.rs in detail: the packets it  *)
(*               decodes (frame.rs) and the backend calls it makes.        *)
(***************************************************************************)
EXTENDS Integers, Sequences, FiniteSets, TLC

\* ------------------------------------------------------------------ bounds
MaxInst == 2
MaxCmds == 3
MaxBacklog == 1
GraceTicks == 1
MaxEvents == 3

\* ------------------------------------------------------- program constants
ExitChanCap == 128
HeaderLen == 8

\* ------------------------------------------------------------- input sets
Ids == {"v0", "v1"}
Roles == {"master", "slave"}
Inst == 1..MaxInst

PktIds == {49, 18}
DeclLens == {0, 1, 3, 8, 9}
Payloads == {<<>>, <<10>>, <<10, 20, 30>>, <<10, 20, 30, 0, 0, 0, 0, 0>>}

Hdr(id0, len) == <<id0, 0, 0, 0, len, 0, 0, 0>>

ShortPackets == {<<>>, <<49, 0, 0, 0, 3, 0, 0>>}

Packets == {Hdr(i, l) \o p : i \in PktIds, l \in DeclLens, p \in Payloads} \cup ShortPackets

\* ------------------------------------------------------------ frame codec
\* u32::from_ne_bytes on the little-endian targets the crate's tests pass on
from_ne_bytes(b) == b[1] + 256 * b[2] + 65536 * b[3] + 16777216 * b[4]

ParseErr(why) == [ok |-> FALSE, err |-> why, id |-> 0, msg |-> <<>>]

ParseOk(id, msg) == [ok |-> TRUE, err |-> "", id |-> id, msg |-> msg]

\* slip: the payload is cut to the declared length only when that is not 0
parse_packet_keep_pad(packet) ==
    IF Len(packet) >= HeaderLen
    THEN LET id == from_ne_bytes(SubSeq(packet, 1, 4))
             msg_len == packet[5]
             msg == SubSeq(packet, HeaderLen + 1, Len(packet))
         IN IF msg_len < Len(msg) /\ msg_len > 0
            THEN ParseOk(id, SubSeq(msg, 1, msg_len))
            ELSE IF msg # <<>> /\ msg_len > Len(msg)
                 THEN ParseErr("length")
                 ELSE ParseOk(id, msg)
    ELSE ParseErr("too_small")

\* slip: a declared length beyond the payload is an error also for 8 bytes
parse_packet_strict(packet) ==
    IF Len(packet) >= HeaderLen
    THEN LET id == from_ne_bytes(SubSeq(packet, 1, 4))
             msg_len == packet[5]
             msg == SubSeq(packet, HeaderLen + 1, Len(packet))
         IN IF msg_len < Len(msg)
            THEN ParseOk(id, SubSeq(msg, 1, msg_len))
            ELSE IF msg_len > Len(msg)
                 THEN ParseErr("length")
                 ELSE ParseOk(id, msg)
    ELSE ParseErr("too_small")

parse_packet(packet) ==
    IF Len(packet) >= HeaderLen
    THEN LET id == from_ne_bytes(SubSeq(packet, 1, 4))
             msg_len == packet[5]
             msg == SubSeq(packet, HeaderLen + 1, Len(packet))
         IN IF msg_len < Len(msg)
            THEN ParseOk(id, SubSeq(msg, 1, msg_len))
            ELSE IF msg # <<>> /\ msg_len > Len(msg)
                 THEN ParseErr("length")
                 ELSE ParseOk(id, msg)
    ELSE ParseErr("too_small")

\* ------------------------------------------- inbound network frame handlers
Call(op, id, msg) == [op |-> op, id |-> id, msg |-> msg]

\* slip: every decoded frame is written, also one with an empty payload
master_frame_always_write(pkt, backend_ok) ==
    LET p == parse_packet(pkt)
    IN IF p.ok
       THEN [calls |-> <<Call("write", p.id, p.msg)>>, ok |-> backend_ok]
       ELSE [calls |-> <<>>, ok |-> TRUE]

\* slip: a failed write is logged like a failed update
master_frame_write_logged(pkt, backend_ok) ==
    LET p == parse_packet(pkt)
    IN IF p.ok
       THEN IF p.msg = <<>>
            THEN [calls |-> <<Call("request_update", p.id, <<>>)>>, ok |-> backend_ok]
            ELSE [calls |-> <<Call("write", p.id, p.msg)>>, ok |-> TRUE]
       ELSE [calls |-> <<>>, ok |-> TRUE]

\* slip: the error of parse_packet is passed on with ?
master_frame_reject_fatal(pkt, backend_ok) ==
    LET p == parse_packet(pkt)
    IN IF p.ok
       THEN IF p.msg = <<>>
            THEN [calls |-> <<Call("request_update", p.id, <<>>)>>, ok |-> backend_ok]
            ELSE [calls |-> <<Call("write", p.id, p.msg)>>, ok |-> backend_ok]
       ELSE [calls |-> <<>>, ok |-> FALSE]

\* backend_ok: the result of the one backend call the handler makes
read_and_forward_network_master_frame(pkt, backend_ok) ==
    LET p == parse_packet(pkt)
    IN IF p.ok
       THEN IF p.msg = <<>>
            THEN [calls |-> <<Call("request_update", p.id, <<>>)>>, ok |-> backend_ok]
            ELSE [calls |-> <<Call("write", p.id, p.msg)>>, ok |-> backend_ok]
       ELSE [calls |-> <<>>, ok |-> TRUE]

\* slip: the result of slave.update is returned instead of logged
slave_frame_update_fatal(pkt, backend_ok) ==
    LET p == parse_packet(pkt)
    IN IF p.ok
       THEN [calls |-> <<Call("update", p.id, p.msg)>>, ok |-> backend_ok]
       ELSE [calls |-> <<>>, ok |-> TRUE]

read_and_forward_network_slave_frame(pkt, backend_ok) ==
    LET p == parse_packet(pkt)
    IN IF p.ok
       THEN [calls |-> <<Call("update", p.id, p.msg)>>, ok |-> TRUE]
       ELSE [calls |-> <<>>, ok |-> TRUE]

forward_network_frame(role, pkt, backend_ok) ==
    IF role = "master"
    THEN read_and_forward_network_master_frame(pkt, backend_ok)
    ELSE read_and_forward_network_slave_frame(pkt, backend_ok)

\* ------------------------------------------------------- tick: bus -> vbus
CAN_MAX_DLEN == 8
CAN_EFF_MASK == 536870911

NoFrame == [some |-> FALSE, id |-> 0, msg |-> <<>>]

SomeFrame(id, msg) == [some |-> TRUE, id |-> id, msg |-> msg]

\* what try_read of a backend can return on one poll
ReadResults ==
    {NoFrame, SomeFrame(49, <<>>), SomeFrame(49, <<1, 2>>),
     SomeFrame(18, <<1, 2, 3, 4, 5, 6, 7, 8, 9>>)}

\* a call of the decorated slave: what was passed in, what the target
\* returned and was passed (fwd), what the caller got back
NoCall ==
    [op |-> "none", arg |-> NoFrame, got |-> NoFrame, out |-> NoFrame,
     ok |-> TRUE, fwd |-> <<>>, armed |-> FALSE]

\* socketcan::CanDataFrame::from_raw_id(frame.id, &frame.msg).is_some()
from_raw_id_ok(id, msg) == id <= CAN_EFF_MASK /\ Len(msg) <= CAN_MAX_DLEN

\* slip: the result of vbus.write_frame is logged, not passed on
lin_frame_write_logged(read, write_ok) ==
    IF read.some /\ from_raw_id_ok(read.id, read.msg)
    THEN [tx |-> <<[id |-> read.id, msg |-> read.msg]>>, ok |-> TRUE]
    ELSE [tx |-> <<>>, ok |-> TRUE]

\* slip: a frame with an empty payload is not forwarded
lin_frame_skip_empty(read, write_ok) ==
    IF read.some /\ read.msg # <<>> /\ from_raw_id_ok(read.id, read.msg)
    THEN [tx |-> <<[id |-> read.id, msg |-> read.msg]>>, ok |-> write_ok]
    ELSE [tx |-> <<>>, ok |-> TRUE]

\* read: the result of reader.try_read(); write_ok: the result of vbus.write_frame
read_and_forward_lin_frame(read, write_ok) ==
    IF read.some /\ from_raw_id_ok(read.id, read.msg)
    THEN [tx |-> <<[id |-> read.id, msg |-> read.msg]>>, ok |-> write_ok]
    ELSE [tx |-> <<>>, ok |-> TRUE]

\* what the handler of a role can return, over all frames and backend results
ForwardResults(role) ==
    {forward_network_frame(role, pkt, backend_ok).ok : pkt \in Packets, backend_ok \in BOOLEAN}

\* ------------------------------------------------------------------ state
VARIABLES
    regpc,      \* serve: "select" | "await_exit" | "stop_wait" | "stop_abort" | "stopped"
    tasks,      \* HashMap<String, Task>: id -> bridge task instance
    cur,        \* the Task a handler of serve has removed from the map and awaits (0: none)
    exit_rx,    \* the mpsc channel of TaskResult (from: the sending instance)
    cmds,       \* connections waiting in the listener, in arrival order
    ncmd,       \* commands arrived so far
    nstart,     \* bridge tasks spawned so far
    grace,      \* ticks left of time::sleep(1 s) in handle_stop_action
    outcome,    \* what the last handler logged
    prev,       \* the last command handled and the instance it acted on
    pc,         \* per task: "none" | "spawned" | "select" | "blocked" | "done" | "aborted"
    tid,        \* per task: config.host_device
    role,       \* per task: host_mode
    cancel,     \* per task: cancel_tx "open" | "sent" | "dropped"
    res,        \* per task: result of worker::run
    hs,         \* per task: JoinHandle "none" | "map" | "held" | "joined" | "dropped"
    tick_due,   \* tasks whose ticker has a tick ready
    slow,       \* tasks that have been suspended in a transport write
    sent_log,   \* per task: the TaskResults it has passed to exit_tx.send
    e_pc,       \* engine: "off" | "start" | "select" | "blocked" | "stopped" | "errored" | "aborted"
    e_role,     \* engine: host_mode
    e_cancel,   \* engine: cancel_rx would resolve (the sender sent or was dropped)
    e_ev,       \* engine: the event serviced last and the results of its calls
    e_calls,    \* engine: backend calls made while servicing e_ev
    e_tx,       \* engine: frames passed to vbus.write_frame while servicing e_ev
    e_n,        \* engine: events serviced so far
    e_sent,     \* engine: results the task closure has sent on exit_tx
    e_bad,      \* engine: a frame the codec rejected has been received
    e_lin,      \* engine: the channel of linOpenChannel "none" | "open" | "closed"
    e_closes,   \* engine: calls of linClose on that channel
    e_read,     \* engine: what try_read returned on the tick serviced last
    c_pkt,      \* codec: the bytes handed to parse_packet
    c_frame,    \* codec: the frame c_pkt was built from (absent: arbitrary bytes)
    c_res,      \* codec: what parse_packet returned for c_pkt
    n_updated,  \* decorator: NoEchoSlave::updated_frames
    n_armed,    \* decorator: ids passed to update and not read back since
    n_ever,     \* decorator: ids ever passed to update
    n_ret,      \* decorator: the last call, what the target did and what was returned
    b_plugin,   \* slave bridge: the plugin type of its configuration
    b_updated,  \* slave bridge: updated_frames of its decorator, if it has one
    b_ever,     \* slave bridge: ids the bridge has passed to slave.update
    b_ret,      \* slave bridge: the last call on its backend
    s_cfg,      \* emitter: base tick of the schedule model and the selected table
    s_index,    \* emitter: MasterSimulator::table_index
    s_elapsed,  \* emitter: MasterSimulator::elapsed_in_table_index
    s_out,      \* emitter: what the last poll returned
    s_last,     \* emitter: table_index and elapsed at the start of the last poll
    s_polls,    \* emitter: polls made so far
    s_emits,    \* emitter: <<poll number, table_index>> of every poll that returned a frame
    s_stub,     \* passive stub: the last event of a master bridge on it and what came of it
    l_lines,    \* loader: the lines of the input
    l_file,     \* loader: the content l_lines was written from (absent: arbitrary lines)
    l_res,      \* loader: what parse_ldf_lines returned for l_lines
    m_json,     \* control socket: the JSON document read last
    m_res,      \* control socket: what serde_json::from_slice returned for it
    m_done,     \* control socket: the handler serve ran for it, "start" | "stop" | "none"
    k_cell,     \* library: KVASER_INIT, "empty" | "running" | "ok" | "failed"
    k_runs,     \* library: calls of linInitializeLibrary
    k_pc,       \* library: per thread, its place in KvaserLinux::new
    k_out,      \* library: per thread, the result of its last KvaserLinux::new
    k_n         \* library: calls of KvaserLinux::new so far

regvars == <<regpc, tasks, cur, exit_rx, cmds, ncmd, nstart, grace, outcome, prev>>

taskvars == <<pc, tid, role, cancel, res, hs, tick_due, slow, sent_log>>

enginevars ==
    <<e_pc, e_role, e_cancel, e_ev, e_calls, e_tx, e_n, e_sent, e_bad, e_lin, e_closes, e_read>>

codecvars == <<c_pkt, c_frame, c_res>>

echovars == <<n_updated, n_armed, n_ever, n_ret>>

slavevars == <<b_plugin, b_updated, b_ever, b_ret>>

\* the further components exercised on their own
simvars == <<s_cfg, s_index, s_elapsed, s_out, s_last, s_polls, s_emits, s_stub>>

ldfvars == <<l_lines, l_file, l_res>>

msgvars == <<m_json, m_res, m_done>>

initvars == <<k_cell, k_runs, k_pc, k_out, k_n>>

unitvars == <<slavevars, simvars, ldfvars, msgvars, initvars>>

\* what a step of one component leaves alone
notslave == <<regvars, taskvars, enginevars, codecvars, echovars, simvars, ldfvars, msgvars, initvars>>

notsim == <<regvars, taskvars, enginevars, codecvars, echovars, slavevars, ldfvars, msgvars, initvars>>

notldf == <<regvars, taskvars, enginevars, codecvars, echovars, slavevars, simvars, msgvars, initvars>>

notmsg == <<regvars, taskvars, enginevars, codecvars, echovars, slavevars, simvars, ldfvars, initvars>>

notinit == <<regvars, taskvars, enginevars, codecvars, echovars, slavevars, simvars, ldfvars, msgvars>>

\* the components exercised on their own: frame codec, echo suppression decorator, ...
libvars == <<codecvars, echovars, unitvars>>

vars == <<regvars, taskvars, enginevars, libvars>>

Failures == {"open_fail", "construct_fail", "transport", "backend"}

Ended == {"done", "aborted"}

NoCmd == [action |-> "none", id |-> "", inst |-> 0]

\* host_mode of the bridge each id is configured as
RoleOf(id) == IF id = "v0" THEN "master" ELSE "slave"

Commands ==
    [action : {"start", "stop"}, id : Ids]
    \cup [action : {"bad"}, id : {""}]

RegInit ==
    /\ regpc = "select"
    /\ tasks = [id \in Ids |-> 0]
    /\ cur = 0
    /\ exit_rx = <<>>
    /\ cmds = <<>>
    /\ ncmd = 0
    /\ nstart = 0
    /\ grace = 0
    /\ outcome = "none"
    /\ prev = NoCmd

TaskInit ==
    /\ pc = [i \in Inst |-> "none"]
    /\ tid = [i \in Inst |-> ""]
    /\ role = [i \in Inst |-> "master"]
    /\ cancel = [i \in Inst |-> "open"]
    /\ res = [i \in Inst |-> "none"]
    /\ hs = [i \in Inst |-> "none"]
    /\ tick_due = {}
    /\ slow = {}
    /\ sent_log = [i \in Inst |-> <<>>]

\* an event of the engine's loop: bok is the result of the backend call it
\* made, tok the result of its transport operation (TRUE when there was none)
Event(kind, pkt, bok, tok) == [kind |-> kind, pkt |-> pkt, bok |-> bok, tok |-> tok]

EngineIdle ==
    /\ e_pc = "off"
    /\ e_role = "master"
    /\ e_cancel = FALSE
    /\ e_ev = Event("none", <<>>, TRUE, TRUE)
    /\ e_calls = <<>>
    /\ e_tx = <<>>
    /\ e_n = 0
    /\ e_sent = <<>>
    /\ e_bad = FALSE
    /\ e_lin = "none"
    /\ e_closes = 0
    /\ e_read = NoFrame

\* no packet has been decoded
CodecIdle ==
    /\ c_pkt = <<>>
    /\ c_frame = NoFrame
    /\ c_res = parse_packet(<<>>)

\* NoEchoSlave::new
EchoIdle ==
    /\ n_updated = {}
    /\ n_armed = {}
    /\ n_ever = {}
    /\ n_ret = NoCall

\* no slave bridge has been built
SlaveIdle ==
    /\ b_plugin = "none"
    /\ b_updated = {}
    /\ b_ever = {}
    /\ b_ret = NoCall

\* a table that the schedule model does not have
NoTable == [found |-> FALSE, items |-> <<>>]

NoPoll == [index |-> 0, elapsed |-> 0, timed |-> FALSE, oob |-> FALSE]

NoStubEvent == [op |-> "none", out |-> NoFrame, tx |-> <<>>, ok |-> TRUE]

\* MasterSimulator::new and SlaveSimulator::new on no schedule at all
SimIdle ==
    /\ s_cfg = [tick |-> 0, table |-> NoTable]
    /\ s_index = 0
    /\ s_elapsed = 0
    /\ s_out = NoFrame
    /\ s_last = NoPoll
    /\ s_polls = 0
    /\ s_emits = {}
    /\ s_stub = NoStubEvent

\* the LDF that parse_ldf_lines starts from
EmptyLdf ==
    [baudrate |-> 0, nodes |-> [master |-> "", base_tick_ms |-> 0],
     frames |-> {}, schedule_tables |-> {}]

NoFile == [some |-> FALSE, speed |-> 0, master |-> "", tick |-> 0, frames |-> <<>>, tables |-> <<>>]

\* no schedule file has been read
LdfIdle ==
    /\ l_lines = <<>>
    /\ l_file = NoFile
    /\ l_res = [ok |-> TRUE, err |-> "", ldf |-> <<EmptyLdf>>]

\* the threads of the runtime that can be inside KvaserLinux::new
Threads == {1, 2}

NoJson == [some |-> FALSE]

MsgErr(e) == [ok |-> FALSE, err |-> e, action |-> "", shape |-> "", baudrate |-> 0, base_tick_ms |-> 0]

NoResult == [res |-> "none", checked |-> FALSE, after_failed |-> FALSE]

\* nothing has been read from the control socket
MsgIdle ==
    /\ m_json = NoJson
    /\ m_res = MsgErr("")
    /\ m_done = "none"

\* KVASER_INIT is OnceCell::new() and no backend is being constructed
InitIdle ==
    /\ k_cell = "empty"
    /\ k_runs = 0
    /\ k_pc = [t \in Threads |-> "idle"]
    /\ k_out = [t \in Threads |-> NoResult]
    /\ k_n = 0

UnitIdle == SlaveIdle /\ SimIdle /\ LdfIdle /\ MsgIdle /\ InitIdle

Init == RegInit /\ TaskInit /\ EngineIdle /\ CodecIdle /\ EchoIdle /\ UnitIdle

\* ------------------------------------------------------------ environment
\* a client connects to the Unix socket and writes one message
Arrive(c) ==
    /\ regpc # "stopped"
    /\ Len(cmds) < MaxBacklog
    /\ ncmd < MaxCmds
    /\ c.action = "start" => nstart < MaxInst
    /\ cmds' = Append(cmds, c)
    /\ ncmd' = ncmd + 1
    /\ nstart' = IF c.action = "start" THEN nstart + 1 ELSE nstart
    /\ UNCHANGED <<regpc, tasks, cur, exit_rx, grace, outcome, prev>>
    /\ UNCHANGED <<taskvars, enginevars, libvars>>

\* ------------------------------------------------------------ bridge task
\* the process is alive: main returns as soon as serve has returned
Alive == regpc # "stopped"

\* task.handle.abort() was called and the task has not ended yet
AbortPending(i) == regpc = "stop_abort" /\ cur = i /\ pc[i] \notin Ended

\* exit_tx.send(..).await completes only while the channel has room
CanSend == Len(exit_rx) < ExitChanCap

\* slip: worker::run(..).await? returns early, an error is never sent
leave_loop_ok_only(i, r) ==
    /\ CanSend
    /\ pc' = [pc EXCEPT ![i] = "done"]
    /\ res' = [res EXCEPT ![i] = r]
    /\ tick_due' = tick_due \ {i}
    /\ sent_log' = [sent_log EXCEPT ![i] = IF r = "ok" THEN Append(@, [id |-> tid[i], res |-> r]) ELSE @]
    /\ exit_rx' = IF r = "ok" THEN Append(exit_rx, [id |-> tid[i], res |-> r, from |-> i]) ELSE exit_rx

\* worker::run returns r; the task closure sends TaskResult { id, result }
\* on exit_tx and returns Ok(())
leave_loop(i, r) ==
    /\ CanSend
    /\ pc' = [pc EXCEPT ![i] = "done"]
    /\ res' = [res EXCEPT ![i] = r]
    /\ tick_due' = tick_due \ {i}
    /\ sent_log' = [sent_log EXCEPT ![i] = Append(@, [id |-> tid[i], res |-> r])]
    /\ exit_rx' = Append(exit_rx, [id |-> tid[i], res |-> r, from |-> i])

\* the task goes back to (or stays at) an .await of its loop
stay_in_loop == UNCHANGED <<res, sent_log, exit_rx>>

\* first poll of the spawned task: worker::run up to the loop of its role
task_run(i) ==
    /\ Alive
    /\ pc[i] = "spawned"
    /\ ~AbortPending(i)
    /\ \E o \in {"ok", "open_fail", "construct_fail"} :
         IF o = "ok"
         THEN /\ pc' = [pc EXCEPT ![i] = "select"]
              /\ tick_due' = tick_due \cup {i}
              /\ stay_in_loop
         ELSE leave_loop(i, o)
    /\ UNCHANGED <<tid, role, cancel, hs, slow>>
    /\ UNCHANGED <<regpc, tasks, cur, cmds, ncmd, nstart, grace, outcome, prev>>
    /\ UNCHANGED <<enginevars, libvars>>

\* select! branch ticker.tick(): read_and_forward_lin_frame
task_tick(i) ==
    /\ Alive
    /\ pc[i] = "select"
    /\ i \in tick_due
    /\ ~AbortPending(i)
    /\ \E o \in {"none", "sent", "fail", "block"} :
         CASE o \in {"none", "sent"} ->
                /\ tick_due' = tick_due \ {i}
                /\ stay_in_loop
                /\ UNCHANGED <<pc, slow>>
           [] o = "fail" ->
                /\ leave_loop(i, "transport")
                /\ UNCHANGED slow
           [] o = "block" ->
                /\ pc' = [pc EXCEPT ![i] = "blocked"]
                /\ tick_due' = tick_due \ {i}
                /\ slow' = slow \cup {i}
                /\ stay_in_loop
    /\ UNCHANGED <<tid, role, cancel, hs>>
    /\ UNCHANGED <<regpc, tasks, cur, cmds, ncmd, nstart, grace, outcome, prev>>
    /\ UNCHANGED <<enginevars, libvars>>

\* vbus.write_frame(..).await returns after having suspended the task
task_write_done(i) ==
    /\ Alive
    /\ pc[i] = "blocked"
    /\ ~AbortPending(i)
    /\ \E ok \in BOOLEAN :
         IF ok
         THEN /\ pc' = [pc EXCEPT ![i] = "select"]
              /\ stay_in_loop
              /\ UNCHANGED tick_due
         ELSE leave_loop(i, "transport")
    /\ UNCHANGED <<tid, role, cancel, hs, slow>>
    /\ UNCHANGED <<regpc, tasks, cur, cmds, ncmd, nstart, grace, outcome, prev>>
    /\ UNCHANGED <<enginevars, libvars>>

\* select! branch &mut cancel_rx: resolves when the sender sent or was dropped
task_cancelled(i) ==
    /\ Alive
    /\ pc[i] = "select"
    /\ cancel[i] # "open"
    /\ ~AbortPending(i)
    /\ leave_loop(i, "ok")
    /\ UNCHANGED <<tid, role, cancel, hs, slow>>
    /\ UNCHANGED <<regpc, tasks, cur, cmds, ncmd, nstart, grace, outcome, prev>>
    /\ UNCHANGED <<enginevars, libvars>>

\* select! branch vbus.read_frame(): a frame arrives (or the read fails)
task_frame(i) ==
    /\ Alive
    /\ pc[i] = "select"
    /\ ~AbortPending(i)
    /\ \E read_ok \in BOOLEAN, fwd_ok \in ForwardResults(role[i]) :
         IF ~read_ok
         THEN leave_loop(i, "transport")
         ELSE IF fwd_ok
              THEN /\ stay_in_loop
                   /\ UNCHANGED <<pc, tick_due>>
              ELSE leave_loop(i, "backend")
    /\ UNCHANGED <<tid, role, cancel, hs, slow>>
    /\ UNCHANGED <<regpc, tasks, cur, cmds, ncmd, nstart, grace, outcome, prev>>
    /\ UNCHANGED <<enginevars, libvars>>

\* the runtime cancels an aborted task at the .await it is suspended in
task_aborted(i) ==
    /\ Alive
    /\ AbortPending(i)
    /\ pc' = [pc EXCEPT ![i] = "aborted"]
    /\ tick_due' = tick_due \ {i}
    /\ UNCHANGED <<tid, role, cancel, res, hs, slow, sent_log>>
    /\ UNCHANGED <<regvars, enginevars, libvars>>

\* ------------------------------------------------------- registry: serve
Spawned == {i \in Inst : pc[i] # "none"}

\* slip: the sender of a dropped Task stays open
drop_sender_leaks(c) == c

\* the Task value goes out of scope: its cancel_tx is dropped
drop_sender(c) == IF c = "open" THEN "dropped" ELSE c

handle_start_action(c) ==
    LET i == Cardinality(Spawned) + 1
        old == tasks[c.id]
    IN /\ pc' = [pc EXCEPT ![i] = "spawned"]
       /\ tid' = [tid EXCEPT ![i] = c.id]
       /\ role' = [role EXCEPT ![i] = RoleOf(c.id)]
       /\ tasks' = [tasks EXCEPT ![c.id] = i]
       /\ hs' = [j \in Inst |-> IF j = i THEN "map" ELSE IF j = old THEN "dropped" ELSE hs[j]]
       /\ cancel' = [j \in Inst |-> IF j = old THEN drop_sender(cancel[j]) ELSE cancel[j]]
       /\ prev' = [action |-> "start", id |-> c.id, inst |-> i]
       /\ outcome' = "started"
       /\ UNCHANGED <<regpc, cur, grace>>
       /\ UNCHANGED <<res, tick_due, slow, sent_log>>

\* slip: the entry is removed and awaited, cancel_tx.send is forgotten
handle_stop_action_no_signal(c) ==
    LET t == tasks[c.id]
    IN IF t # 0
       THEN /\ tasks' = [tasks EXCEPT ![c.id] = 0]
            /\ hs' = [hs EXCEPT ![t] = "held"]
            /\ cur' = t
            /\ grace' = GraceTicks
            /\ regpc' = "stop_wait"
            /\ prev' = [action |-> "stop", id |-> c.id, inst |-> t]
            /\ outcome' = "stopping"
            /\ UNCHANGED <<pc, tid, role, cancel, res, tick_due, slow, sent_log>>
       ELSE /\ outcome' = "not_running"
            /\ prev' = [action |-> "stop", id |-> c.id, inst |-> 0]
            /\ UNCHANGED <<regpc, tasks, cur, grace>>
            /\ UNCHANGED taskvars

\* slip: the else branch is missing, an unknown id is not reported
handle_stop_action_silent(c) ==
    LET t == tasks[c.id]
    IN IF t # 0
       THEN /\ tasks' = [tasks EXCEPT ![c.id] = 0]
            /\ cancel' = [cancel EXCEPT ![t] = "sent"]
            /\ hs' = [hs EXCEPT ![t] = "held"]
            /\ cur' = t
            /\ grace' = GraceTicks
            /\ regpc' = "stop_wait"
            /\ prev' = [action |-> "stop", id |-> c.id, inst |-> t]
            /\ outcome' = "stopping"
            /\ UNCHANGED <<pc, tid, role, res, tick_due, slow, sent_log>>
       ELSE /\ prev' = [action |-> "stop", id |-> c.id, inst |-> 0]
            /\ UNCHANGED <<regpc, tasks, cur, grace, outcome>>
            /\ UNCHANGED taskvars

handle_stop_action(c) ==
    LET t == tasks[c.id]
    IN IF t # 0
       THEN /\ tasks' = [tasks EXCEPT ![c.id] = 0]
            /\ cancel' = [cancel EXCEPT ![t] = "sent"]
            /\ hs' = [hs EXCEPT ![t] = "held"]
            /\ cur' = t
            /\ grace' = GraceTicks
            /\ regpc' = "stop_wait"
            /\ prev' = [action |-> "stop", id |-> c.id, inst |-> t]
            /\ outcome' = "stopping"
            /\ UNCHANGED <<pc, tid, role, res, tick_due, slow, sent_log>>
       ELSE /\ outcome' = "not_running"
            /\ prev' = [action |-> "stop", id |-> c.id, inst |-> 0]
            /\ UNCHANGED <<regpc, tasks, cur, grace>>
            /\ UNCHANGED taskvars

handle_msg(c) ==
    IF c.action = "start"
    THEN handle_start_action(c)
    ELSE handle_stop_action(c)

\* select! branch listener.accept(): read_json_from_socket, then handle_msg
serve_accept ==
    /\ regpc = "select"
    /\ cmds # <<>>
    /\ cmds' = Tail(cmds)
    /\ IF Head(cmds).action = "bad"
       THEN /\ outcome' = "bad_message"
            /\ prev' = [action |-> "bad", id |-> "", inst |-> 0]
            /\ UNCHANGED <<regpc, tasks, cur, grace>>
            /\ UNCHANGED taskvars
       ELSE handle_msg(Head(cmds))
    /\ UNCHANGED <<exit_rx, ncmd, nstart>>
    /\ UNCHANGED <<enginevars, libvars>>

\* slip: the removed Task is dropped, task.handle.await is forgotten
serve_recv_exit_no_join ==
    /\ regpc = "select"
    /\ exit_rx # <<>>
    /\ LET r == Head(exit_rx)
           t == tasks[r.id]
       IN /\ exit_rx' = Tail(exit_rx)
          /\ IF t # 0
             THEN /\ tasks' = [tasks EXCEPT ![r.id] = 0]
                  /\ hs' = [hs EXCEPT ![t] = "dropped"]
                  /\ cancel' = [cancel EXCEPT ![t] = drop_sender(@)]
             ELSE UNCHANGED <<tasks, hs, cancel>>
    /\ UNCHANGED <<regpc, cur, cmds, ncmd, nstart, grace, outcome, prev>>
    /\ UNCHANGED <<pc, tid, role, res, tick_due, slow, sent_log>>
    /\ UNCHANGED <<enginevars, libvars>>

\* select! branch exit_rx.recv(): tasks.remove(&exit_res.id)
serve_recv_exit ==
    /\ regpc = "select"
    /\ exit_rx # <<>>
    /\ LET r == Head(exit_rx)
           t == tasks[r.id]
       IN /\ exit_rx' = Tail(exit_rx)
          /\ IF t # 0
             THEN /\ tasks' = [tasks EXCEPT ![r.id] = 0]
                  /\ hs' = [hs EXCEPT ![t] = "held"]
                  /\ cur' = t
                  /\ regpc' = "await_exit"
             ELSE UNCHANGED <<tasks, hs, cur, regpc>>
    /\ UNCHANGED <<cmds, ncmd, nstart, grace, outcome, prev>>
    /\ UNCHANGED <<pc, tid, role, cancel, res, tick_due, slow, sent_log>>
    /\ UNCHANGED <<enginevars, libvars>>

\* task.handle.await of the exit_rx branch returns; the Task is dropped
serve_join_exit ==
    /\ regpc = "await_exit"
    /\ pc[cur] \in Ended
    /\ hs' = [hs EXCEPT ![cur] = "joined"]
    /\ cancel' = [cancel EXCEPT ![cur] = drop_sender(@)]
    /\ regpc' = "select"
    /\ cur' = 0
    /\ UNCHANGED <<tasks, exit_rx, cmds, ncmd, nstart, grace, outcome, prev>>
    /\ UNCHANGED <<pc, tid, role, res, tick_due, slow, sent_log>>
    /\ UNCHANGED <<enginevars, libvars>>

\* handle_stop_action, select! branch &mut task.handle
stop_joined ==
    /\ regpc = "stop_wait"
    /\ pc[cur] = "done"
    /\ hs' = [hs EXCEPT ![cur] = "joined"]
    /\ outcome' = "exited"
    /\ regpc' = "select"
    /\ cur' = 0
    /\ grace' = 0
    /\ UNCHANGED <<tasks, exit_rx, cmds, ncmd, nstart, prev>>
    /\ UNCHANGED <<pc, tid, role, cancel, res, tick_due, slow, sent_log>>
    /\ UNCHANGED <<enginevars, libvars>>

\* slip: on timeout the handler returns, the task is neither aborted nor awaited
stop_timeout_returns ==
    /\ regpc = "stop_wait"
    /\ grace = 0
    /\ regpc' = "select"
    /\ cur' = 0
    /\ outcome' = "aborted"
    /\ hs' = [hs EXCEPT ![cur] = "dropped"]
    /\ UNCHANGED <<tasks, exit_rx, cmds, ncmd, nstart, grace, prev>>
    /\ UNCHANGED <<pc, tid, role, cancel, res, tick_due, slow, sent_log>>
    /\ UNCHANGED <<enginevars, libvars>>

\* handle_stop_action, select! branch time::sleep: task.handle.abort()
stop_timeout ==
    /\ regpc = "stop_wait"
    /\ grace = 0
    /\ regpc' = "stop_abort"
    /\ UNCHANGED <<tasks, cur, exit_rx, cmds, ncmd, nstart, grace, outcome, prev>>
    /\ UNCHANGED <<taskvars, enginevars, libvars>>

\* handle_stop_action: task.handle.await after the abort returns
stop_abort_joined ==
    /\ regpc = "stop_abort"
    /\ pc[cur] \in Ended
    /\ hs' = [hs EXCEPT ![cur] = "joined"]
    /\ outcome' = "aborted"
    /\ regpc' = "select"
    /\ cur' = 0
    /\ UNCHANGED <<tasks, exit_rx, cmds, ncmd, nstart, grace, prev>>
    /\ UNCHANGED <<pc, tid, role, cancel, res, tick_due, slow, sent_log>>
    /\ UNCHANGED <<enginevars, libvars>>

\* select! branch shutdown.cancelled(): serve returns, its locals are dropped
serve_shutdown ==
    /\ regpc = "select"
    /\ regpc' = "stopped"
    /\ exit_rx' = <<>>
    /\ cmds' = <<>>
    /\ tasks' = [id \in Ids |-> 0]
    /\ hs' = [j \in Inst |-> IF hs[j] = "map" THEN "dropped" ELSE hs[j]]
    /\ cancel' = [j \in Inst |-> IF hs[j] = "map" THEN drop_sender(cancel[j]) ELSE cancel[j]]
    /\ UNCHANGED <<cur, ncmd, nstart, grace, outcome, prev>>
    /\ UNCHANGED <<pc, tid, role, res, tick_due, slow, sent_log>>
    /\ UNCHANGED <<enginevars, libvars>>

\* ------------------------------------------------------------------- time
\* a step the runtime takes without letting time pass
TaskReady(i) ==
    \/ pc[i] = "spawned"
    \/ pc[i] = "select" /\ (i \in tick_due \/ (cancel[i] # "open" /\ CanSend))
    \/ AbortPending(i)

RegReady ==
    \/ regpc \in {"await_exit", "stop_abort"} /\ pc[cur] \in Ended
    \/ regpc = "stop_wait" /\ (pc[cur] = "done" \/ grace = 0)

\* one base tick of time passes: tickers fire, the grace sleep runs down
advance ==
    /\ regpc # "stopped"
    /\ ~RegReady
    /\ \A i \in Inst : ~TaskReady(i)
    /\ tick_due' = {i \in Inst : pc[i] \in {"select", "blocked"}}
    /\ grace' = IF regpc = "stop_wait" /\ grace > 0 THEN grace - 1 ELSE grace
    /\ UNCHANGED <<regpc, tasks, cur, exit_rx, cmds, ncmd, nstart, outcome, prev>>
    /\ UNCHANGED <<pc, tid, role, cancel, res, hs, slow, sent_log>>
    /\ UNCHANGED <<enginevars, libvars>>

\* ---------------------------------------------------------- specification
TaskStep(i) ==
    \/ task_run(i)
    \/ task_tick(i)
    \/ task_write_done(i)
    \/ task_cancelled(i)
    \/ task_frame(i)
    \/ task_aborted(i)

RegStep ==
    \/ serve_accept
    \/ serve_recv_exit
    \/ serve_join_exit
    \/ stop_joined
    \/ stop_timeout
    \/ stop_abort_joined
    \/ serve_shutdown

Next ==
    \/ \E c \in Commands : Arrive(c)
    \/ \E i \in Inst : TaskStep(i)
    \/ RegStep
    \/ advance

Spec == Init /\ [][Next]_vars

\* the fairness of the runtime: a ready task is polled, select! picks among
\* its ready branches at random, time passes; the environment owes nothing
FairSpec ==
    /\ Init
    /\ [][Next]_vars
    /\ WF_vars(serve_accept)
    /\ SF_vars(serve_recv_exit)
    /\ WF_vars(serve_join_exit)
    /\ WF_vars(stop_joined)
    /\ WF_vars(stop_timeout)
    /\ WF_vars(stop_abort_joined)
    /\ SF_vars(advance)
    /\ \A i \in Inst : WF_vars(task_run(i))
    /\ \A i \in Inst : WF_vars(task_tick(i))
    /\ \A i \in Inst : WF_vars(task_aborted(i))
    /\ \A i \in Inst : SF_vars(task_cancelled(i))

\* ------------------------------------------------- one bridge engine alone
\* KvaserLinux::new: o is what the driver library answers
KvaserLinux_new(o) ==
    CASE o = "ok" -> [ok |-> TRUE, lin |-> "open", closes |-> 0]
      [] o = "configure_fail" -> [ok |-> FALSE, lin |-> "closed", closes |-> 1]
      [] OTHER -> [ok |-> FALSE, lin |-> "none", closes |-> 0]

\* Drop for KvaserLinux: the backend value goes out of scope
drop_backend ==
    /\ e_lin' = IF e_lin = "open" THEN "closed" ELSE e_lin
    /\ e_closes' = IF e_lin = "open" THEN e_closes + 1 ELSE e_closes

\* worker::run returns r: its locals are dropped, the task closure sends
\* TaskResult { id, result: r } on exit_tx
engine_exit(r) ==
    /\ e_sent' = Append(e_sent, r)
    /\ drop_backend

\* the engine goes back to (or stays at) an .await of its loop
engine_stay == UNCHANGED <<e_sent, e_lin, e_closes>>

EngineInit ==
    /\ RegInit
    /\ TaskInit
    /\ e_pc = "start"
    /\ e_role \in Roles
    /\ e_cancel = FALSE
    /\ e_ev = Event("none", <<>>, TRUE, TRUE)
    /\ e_calls = <<>>
    /\ e_tx = <<>>
    /\ e_n = 0
    /\ e_sent = <<>>
    /\ e_bad = FALSE
    /\ e_lin = "none"
    /\ e_closes = 0
    /\ e_read = NoFrame
    /\ CodecIdle
    /\ EchoIdle
    /\ UnitIdle

\* worker::run up to the loop of its role: CanSocket::open, then the backend
engine_construct ==
    /\ e_pc = "start"
    /\ \E o \in {"ok", "open_fail", "no_channel", "configure_fail"} :
         IF o = "open_fail"
         THEN /\ e_pc' = "errored"
              /\ e_sent' = Append(e_sent, "open_fail")
              /\ UNCHANGED <<e_lin, e_closes>>
         ELSE LET b == KvaserLinux_new(o)
              IN /\ e_lin' = b.lin
                 /\ e_closes' = e_closes + b.closes
                 /\ e_pc' = IF b.ok THEN "select" ELSE "errored"
                 /\ e_sent' = IF b.ok THEN e_sent ELSE Append(e_sent, "construct_fail")
    /\ UNCHANGED <<e_role, e_cancel, e_ev, e_calls, e_tx, e_n, e_bad, e_read>>
    /\ UNCHANGED <<regvars, taskvars, libvars>>

\* the registry sends on cancel_tx or drops it
engine_cancel_fires ==
    /\ e_pc \in {"select", "blocked"}
    /\ ~e_cancel
    /\ e_cancel' = TRUE
    /\ UNCHANGED <<e_pc, e_role, e_ev, e_calls, e_tx, e_n, e_sent, e_bad, e_lin, e_closes, e_read>>
    /\ UNCHANGED <<regvars, taskvars, libvars>>

\* select! branch ticker.tick()
engine_tick ==
    /\ e_pc = "select"
    /\ e_n < MaxEvents
    /\ \E read \in ReadResults, w \in {"ok", "fail", "block"} :
         LET r == read_and_forward_lin_frame(read, w # "fail")
         IN /\ e_tx' = r.tx
            /\ e_read' = read
            /\ IF r.tx # <<>> /\ w = "block"
               THEN /\ e_pc' = "blocked"
                    /\ e_ev' = Event("tick", <<>>, TRUE, TRUE)
                    /\ engine_stay
               ELSE /\ e_ev' = Event("tick", <<>>, TRUE, r.tx = <<>> \/ w # "fail")
                    /\ IF r.ok
                       THEN e_pc' = "select" /\ engine_stay
                       ELSE e_pc' = "errored" /\ engine_exit("transport")
    /\ e_calls' = <<>>
    /\ e_n' = e_n + 1
    /\ UNCHANGED <<e_role, e_cancel, e_bad>>
    /\ UNCHANGED <<regvars, taskvars, libvars>>

\* vbus.write_frame(..).await returns after having suspended the engine
engine_write_done ==
    /\ e_pc = "blocked"
    /\ \E ok \in BOOLEAN :
         IF ok
         THEN /\ e_pc' = "select"
              /\ engine_stay
              /\ UNCHANGED e_ev
         ELSE /\ e_pc' = "errored"
              /\ e_ev' = [e_ev EXCEPT !.tok = FALSE]
              /\ engine_exit("transport")
    /\ UNCHANGED <<e_role, e_cancel, e_calls, e_tx, e_n, e_bad, e_read>>
    /\ UNCHANGED <<regvars, taskvars, libvars>>

\* select! branch vbus.read_frame()
engine_frame ==
    /\ e_pc = "select"
    /\ e_n < MaxEvents
    /\ \E read_ok \in BOOLEAN, pkt \in Packets, backend_ok \in BOOLEAN :
         IF read_ok
         THEN LET r == forward_network_frame(e_role, pkt, backend_ok)
              IN /\ e_ev' = Event("frame", pkt, r.calls = <<>> \/ backend_ok, TRUE)
                 /\ e_calls' = r.calls
                 /\ e_bad' = (e_bad \/ ~parse_packet(pkt).ok)
                 /\ IF r.ok
                    THEN e_pc' = "select" /\ engine_stay
                    ELSE e_pc' = "errored" /\ engine_exit("backend")
         ELSE /\ e_ev' = Event("read_err", <<>>, TRUE, FALSE)
              /\ e_calls' = <<>>
              /\ e_pc' = "errored"
              /\ engine_exit("transport")
              /\ UNCHANGED e_bad
    /\ e_tx' = <<>>
    /\ e_n' = e_n + 1
    /\ e_read' = NoFrame
    /\ UNCHANGED <<e_role, e_cancel>>
    /\ UNCHANGED <<regvars, taskvars, libvars>>

\* slip: before returning, the cancel branch flushes the frame the backend holds
engine_cancelled_flush ==
    /\ e_pc = "select"
    /\ e_cancel
    /\ e_pc' = "stopped"
    /\ e_ev' = Event("cancel", <<>>, TRUE, TRUE)
    /\ e_calls' = <<>>
    /\ e_tx' = <<[id |-> 49, msg |-> <<>>]>>
    /\ engine_exit("ok")
    /\ UNCHANGED <<e_role, e_cancel, e_n, e_bad, e_read>>
    /\ UNCHANGED <<regvars, taskvars, libvars>>

\* select! branch &mut cancel_rx
engine_cancelled ==
    /\ e_pc = "select"
    /\ e_cancel
    /\ e_pc' = "stopped"
    /\ e_ev' = Event("cancel", <<>>, TRUE, TRUE)
    /\ e_calls' = <<>>
    /\ e_tx' = <<>>
    /\ engine_exit("ok")
    /\ UNCHANGED <<e_role, e_cancel, e_n, e_bad, e_read>>
    /\ UNCHANGED <<regvars, taskvars, libvars>>

\* slip: the aborted future is forgotten instead of dropped
engine_abort_leaks ==
    /\ e_pc \in {"select", "blocked"}
    /\ e_cancel
    /\ e_pc' = "aborted"
    /\ e_ev' = Event("abort", <<>>, TRUE, TRUE)
    /\ e_calls' = <<>>
    /\ e_tx' = <<>>
    /\ UNCHANGED <<e_role, e_cancel, e_n, e_sent, e_bad, e_lin, e_closes, e_read>>
    /\ UNCHANGED <<regvars, taskvars, libvars>>

\* handle_stop_action: task.handle.abort() after the grace period; the runtime
\* drops the future of the task at the .await it is suspended in
engine_abort ==
    /\ e_pc \in {"select", "blocked"}
    /\ e_cancel
    /\ e_pc' = "aborted"
    /\ e_ev' = Event("abort", <<>>, TRUE, TRUE)
    /\ e_calls' = <<>>
    /\ e_tx' = <<>>
    /\ drop_backend
    /\ UNCHANGED <<e_role, e_cancel, e_n, e_sent, e_bad, e_read>>
    /\ UNCHANGED <<regvars, taskvars, libvars>>

EngineNext ==
    \/ engine_construct
    \/ engine_cancel_fires
    \/ engine_tick
    \/ engine_write_done
    \/ engine_frame
    \/ engine_cancelled
    \/ engine_abort

EngineSpec == EngineInit /\ [][EngineNext]_vars

\* ---------------------------------------------------- the frame codec alone
MaxPktLen == 10
MaxPayload == 3

\* u32 values are kept below 2^31
ByteSet == {0, 2, 127}

FrameIds == {0, 49, 4660, 2147483647}

\* u32::to_ne_bytes, the inverse of what parse_packet reads
to_ne_bytes(id) ==
    <<id % 256, (id \div 256) % 256, (id \div 65536) % 256, (id \div 16777216) % 256>>

\* the wire packet of a frame: 4 id bytes, declared length, 3 reserved bytes,
\* the payload, then the pad bytes of the transport
WirePacket(id, payload, rsv, pad) ==
    to_ne_bytes(id) \o <<Len(payload) % 256, rsv, rsv, rsv>> \o payload \o pad

EncPayloads == UNION {[1..n -> ByteSet] : n \in 0..MaxPayload}

Pads == {<<>>, <<127>>, <<2, 127>>, <<0, 0, 0, 0, 0>>}

\* the byte sequence handed to the decoder
decode(packet) == parse_packet(packet)

CodecInit ==
    /\ RegInit
    /\ TaskInit
    /\ EngineIdle
    /\ CodecIdle
    /\ EchoIdle
    /\ UnitIdle

\* one more byte of an arbitrary input, decoded
codec_push ==
    /\ ~c_frame.some
    /\ Len(c_pkt) < MaxPktLen
    /\ \E b \in ByteSet :
         /\ c_pkt' = Append(c_pkt, b)
         /\ c_res' = decode(Append(c_pkt, b))
    /\ c_frame' = NoFrame
    /\ UNCHANGED <<echovars, unitvars>>
    /\ UNCHANGED <<regvars, taskvars, enginevars>>

\* the wire packet of a frame, padded by the transport, decoded
codec_encode ==
    /\ c_pkt = <<>>
    /\ \E id \in FrameIds, payload \in EncPayloads, rsv \in {0, 127}, pad \in Pads :
         /\ c_pkt' = WirePacket(id, payload, rsv, pad)
         /\ c_frame' = SomeFrame(id, payload)
         /\ c_res' = decode(WirePacket(id, payload, rsv, pad))
    /\ UNCHANGED <<echovars, unitvars>>
    /\ UNCHANGED <<regvars, taskvars, enginevars>>

CodecNext ==
    \/ codec_push
    \/ codec_encode

CodecSpec == CodecInit /\ [][CodecNext]_vars

\* -------------------------------------- the echo suppression decorator alone
EchoIds == {49, 18, 7}

EchoFrames == {SomeFrame(id, msg) : id \in EchoIds, msg \in {<<>>, <<1, 2>>}}

\* slip: the frame of the target is returned as it is
try_read_passthrough(updated, t) == t

\* NoEchoSlave::try_read: t is what target.try_read() returned
NoEchoSlave_try_read(updated, t) ==
    IF t.some
    THEN IF t.id \in updated THEN SomeFrame(t.id, <<>>) ELSE t
    ELSE t

\* slip: update forgets the ids recorded by earlier updates
update_forgets_earlier(updated, f) == [updated |-> {f.id}, fwd |-> <<f>>]

\* NoEchoSlave::update: the new updated_frames and the frame passed to the target
NoEchoSlave_update(updated, f) == [updated |-> updated \cup {f.id}, fwd |-> <<f>>]

EchoInit ==
    /\ RegInit
    /\ TaskInit
    /\ EngineIdle
    /\ CodecIdle
    /\ EchoIdle
    /\ UnitIdle

\* Slave::update on the decorator; target_ok is what target.update returns
echo_update ==
    /\ \E f \in EchoFrames, target_ok \in BOOLEAN :
         LET u == NoEchoSlave_update(n_updated, f)
         IN /\ n_updated' = u.updated
            /\ n_armed' = n_armed \cup {f.id}
            /\ n_ever' = n_ever \cup {f.id}
            /\ n_ret' = [op |-> "update", arg |-> f, got |-> NoFrame, out |-> NoFrame,
                         ok |-> target_ok, fwd |-> u.fwd, armed |-> FALSE]
    /\ UNCHANGED <<codecvars, unitvars>>
    /\ UNCHANGED <<regvars, taskvars, enginevars>>

\* FrameReader::try_read on the decorator; t is what the target has to offer
echo_try_read ==
    /\ \E t \in EchoFrames \cup {NoFrame} :
         /\ n_ret' = [op |-> "try_read", arg |-> NoFrame, got |-> t,
                      out |-> NoEchoSlave_try_read(n_updated, t),
                      ok |-> TRUE, fwd |-> <<>>, armed |-> (t.some /\ t.id \in n_armed)]
         /\ n_armed' = IF t.some THEN n_armed \ {t.id} ELSE n_armed
    /\ UNCHANGED <<n_updated, n_ever>>
    /\ UNCHANGED <<codecvars, unitvars>>
    /\ UNCHANGED <<regvars, taskvars, enginevars>>

EchoNext ==
    \/ echo_update
    \/ echo_try_read

EchoSpec == EchoInit /\ [][EchoNext]_vars

\* ------------------------------------------- the backend of a slave bridge
Plugins == {"lin", "simulator"}

\* worker::run, host_mode slave: the backend it builds for the plugin type.
\* KvaserLinux::new_slave wraps the device in NoEchoSlave::new; the simulator
\* plugin hands MasterSimulator::new to run_slave_role as it is
slave_backend(plugin) ==
    IF plugin = "lin"
    THEN [target |-> "KvaserLinux", noecho |-> TRUE]
    ELSE [target |-> "MasterSimulator", noecho |-> FALSE]

\* Slave::update of the backend: the new updated_frames
Slave_update(plugin, updated, f) ==
    IF slave_backend(plugin).noecho
    THEN NoEchoSlave_update(updated, f).updated
    ELSE updated

\* FrameReader::try_read of the backend; t is what the target returned
Slave_try_read(plugin, updated, t) ==
    IF slave_backend(plugin).noecho
    THEN NoEchoSlave_try_read(updated, t)
    ELSE t

\* what the target of the backend can return: a bus frame of the device, or a
\* frame of the emitter (its payload is 0, 1, .. or empty)
TargetReads(plugin) ==
    IF plugin = "lin"
    THEN EchoFrames \cup {NoFrame}
    ELSE {SomeFrame(id, msg) : id \in EchoIds, msg \in {<<>>, <<0, 1>>}} \cup {NoFrame}

SlaveInit ==
    /\ RegInit
    /\ TaskInit
    /\ EngineIdle
    /\ CodecIdle
    /\ EchoIdle
    /\ b_plugin \in Plugins
    /\ b_updated = {}
    /\ b_ever = {}
    /\ b_ret = NoCall
    /\ SimIdle
    /\ LdfIdle
    /\ MsgIdle
    /\ InitIdle

\* read_and_forward_network_slave_frame has decoded f and calls slave.update
slave_update ==
    /\ \E f \in EchoFrames, target_ok \in BOOLEAN :
         /\ b_updated' = Slave_update(b_plugin, b_updated, f)
         /\ b_ever' = b_ever \cup {f.id}
         /\ b_ret' = [op |-> "update", arg |-> f, got |-> NoFrame, out |-> NoFrame,
                      ok |-> (target_ok \/ b_plugin = "simulator"), fwd |-> <<f>>,
                      armed |-> FALSE]
    /\ UNCHANGED b_plugin
    /\ UNCHANGED notslave

\* read_and_forward_lin_frame calls reader.try_read on the backend
slave_try_read ==
    /\ \E t \in TargetReads(b_plugin) :
         b_ret' = [op |-> "try_read", arg |-> NoFrame, got |-> t,
                   out |-> Slave_try_read(b_plugin, b_updated, t),
                   ok |-> TRUE, fwd |-> <<>>, armed |-> (t.some /\ t.id \in b_ever)]
    /\ UNCHANGED <<b_plugin, b_updated, b_ever>>
    /\ UNCHANGED notslave

SlaveNext ==
    \/ slave_update
    \/ slave_try_read

SlaveSpec == SlaveInit /\ [][SlaveNext]_vars

\* ------------------------------------------------ the simulator backends
MaxPolls == 11

MasterNode == "TheMaster"

\* ldf.frames: the descriptors of the schedule model, by name
SimDescriptors ==
    [n \in {"Slave1LinFrame01", "MasterLinFrame01"} |->
        IF n = "Slave1LinFrame01"
        THEN [id |-> 49, owner |-> "Slave1", size |-> 2]
        ELSE [id |-> 50, owner |-> MasterNode, size |-> 3]]

\* a ScheduleTableItem; the delay, an f32 of milliseconds, is held in tenths
Item(name, delay10) == [name |-> name, delay |-> delay10]

SomeTable(items) == [found |-> TRUE, items |-> items]

\* the tables schedule_table_name can select: none, tables of known
\* descriptors, and tables with an entry that names no descriptor
SimTables ==
    { NoTable,
      SomeTable(<<Item("Slave1LinFrame01", 150), Item("MasterLinFrame01", 100)>>),
      SomeTable(<<Item("MasterLinFrame01", 25), Item("Slave1LinFrame01", 10)>>),
      SomeTable(<<Item("Slave1LinFrame01", 100), Item("MasterReq", 100)>>),
      SomeTable(<<Item("MasterReq", 150)>>),
      SomeTable(<<>>) }

\* ldf.nodes.base_tick_ms
SimTicks == {1, 5}

\* table_entry.delay as u32
delay_as_u32(delay10) == delay10 \div 10

\* slip: the slot ends only when the elapsed time exceeds the delay
slot_expired_strict(elapsed, delay10) == elapsed > delay_as_u32(delay10)

\* self.elapsed_in_table_index >= table_entry.delay as u32
slot_expired(elapsed, delay10) == elapsed >= delay_as_u32(delay10)

\* slip: the filler is made for every owner
filler_any_owner(frame, master) == [i \in 1..frame.size |-> i - 1]

\* (0..frame.size).collect() for a frame of the master node, vec![] otherwise
filler(frame, master) ==
    IF frame.owner = master THEN [i \in 1..frame.size |-> i - 1] ELSE <<>>

\* MasterSimulator::try_read: the new table_index and elapsed_in_table_index,
\* the frame returned, whether the slot time was advanced, and whether
\* table.items was indexed out of bounds (oob), which panics
MasterSimulator_try_read(cfg, index, elapsed) ==
    IF ~cfg.table.found
    THEN [index |-> index, elapsed |-> elapsed, out |-> NoFrame, timed |-> FALSE,
          oob |-> FALSE]
    ELSE IF index >= Len(cfg.table.items)
    THEN [index |-> index, elapsed |-> elapsed, out |-> NoFrame, timed |-> FALSE,
          oob |-> TRUE]
    ELSE LET items == cfg.table.items
             table_entry == items[index + 1]
         IN IF table_entry.name \notin DOMAIN SimDescriptors
            THEN [index |-> index, elapsed |-> elapsed, out |-> NoFrame, timed |-> FALSE,
                  oob |-> FALSE]
            ELSE LET frame == SimDescriptors[table_entry.name]
                     e2 == elapsed + cfg.tick
                     adv == slot_expired(e2, table_entry.delay)
                 IN [index |-> IF adv THEN (index + 1) % Len(items) ELSE index,
                     elapsed |-> IF adv THEN 0 ELSE e2,
                     out |-> IF elapsed = 0
                             THEN SomeFrame(frame.id, filler(frame, MasterNode))
                             ELSE NoFrame,
                     timed |-> TRUE, oob |-> FALSE]

\* slip: the stub answers a poll with a frame
stub_try_read_echo == SomeFrame(49, <<>>)

\* SlaveSimulator::try_read
SlaveSimulator_try_read == NoFrame

\* Master for SlaveSimulator: write and request_update
SlaveSimulator_call(c) == TRUE

SimInit ==
    /\ RegInit
    /\ TaskInit
    /\ EngineIdle
    /\ CodecIdle
    /\ EchoIdle
    /\ SlaveIdle
    /\ s_cfg \in [tick : SimTicks, table : SimTables]
    /\ s_index = 0
    /\ s_elapsed = 0
    /\ s_out = NoFrame
    /\ s_last = NoPoll
    /\ s_polls = 0
    /\ s_emits = {}
    /\ s_stub = NoStubEvent
    /\ LdfIdle
    /\ MsgIdle
    /\ InitIdle

\* read_and_forward_lin_frame of a simulator slave bridge polls the emitter
sim_poll ==
    /\ s_polls < MaxPolls
    /\ ~s_last.oob
    /\ LET r == MasterSimulator_try_read(s_cfg, s_index, s_elapsed)
       IN /\ s_index' = r.index
          /\ s_elapsed' = r.elapsed
          /\ s_out' = r.out
          /\ s_last' = [index |-> s_index, elapsed |-> s_elapsed, timed |-> r.timed,
                        oob |-> r.oob]
          /\ s_emits' = IF r.out.some THEN s_emits \cup {<<s_polls, s_index>>} ELSE s_emits
    /\ s_polls' = s_polls + 1
    /\ UNCHANGED <<s_cfg, s_stub>>
    /\ UNCHANGED notsim

\* the ticker branch of a simulator master bridge: read_and_forward_lin_frame
\* on the stub; write_ok is what vbus.write_frame would return
stub_tick ==
    /\ \E write_ok \in BOOLEAN :
         LET t == SlaveSimulator_try_read
             r == read_and_forward_lin_frame(t, write_ok)
         IN s_stub' = [op |-> "try_read", out |-> t, tx |-> r.tx, ok |-> r.ok]
    /\ UNCHANGED <<s_cfg, s_index, s_elapsed, s_out, s_last, s_polls, s_emits>>
    /\ UNCHANGED notsim

\* the network branch of a simulator master bridge:
\* read_and_forward_network_master_frame on the stub
stub_frame ==
    /\ \E pkt \in Packets :
         LET calls == read_and_forward_network_master_frame(pkt, TRUE).calls
             op == IF calls = <<>> THEN "rejected" ELSE calls[1].op
             r == read_and_forward_network_master_frame(pkt, SlaveSimulator_call(calls))
         IN s_stub' = [op |-> op, out |-> NoFrame, tx |-> <<>>, ok |-> r.ok]
    /\ UNCHANGED <<s_cfg, s_index, s_elapsed, s_out, s_last, s_polls, s_emits>>
    /\ UNCHANGED notsim

SimNext ==
    \/ sim_poll
    \/ stub_tick
    \/ stub_frame

SimSpec == SimInit /\ [][SimNext]_vars

\* ------------------------------------------------- the schedule loader
MaxLines == 4

\* A line of the input, by what the loader can tell about it:
\*   "nodes" | "frames" | "tables"   the lines "Nodes {", "Frames {", "Schedule_tables {"
\*   "close"      the line "}"
\*   "close_in"   an indented "}"
\*   "table"      "  <name> {"
\*   "anon"       another line that ends with "{"
\*   "frame"      "  <name>: 0x<id>, <owner>, <size> {"
\*   "entry"      "  <name> delay <d> ms;"
\*   "master"     "  Master: <name>, <t> ms, ..."
\*   "speed"      "LIN_speed = <v> kbps;"
\*   "other"      any other line
\* num is the id, or the decimal of the line in fixed point: delay and base
\* tick in tenths of a millisecond, speed in ten-thousandths of a kbps
Line(kind, name, num, owner, size) ==
    [kind |-> kind, name |-> name, num |-> num, owner |-> owner, size |-> size]

Bare(kind) == Line(kind, "", 0, "", 0)

NodesOpen == Line("nodes", "Nodes", 0, "", 0)

FramesOpen == Line("frames", "Frames", 0, "", 0)

TablesOpen == Bare("tables")

Close == Bare("close")

CloseIn == Bare("close_in")

TableOpen(name) == Line("table", name, 0, "", 0)

FrameLine(name, id, owner, size) == Line("frame", name, id, owner, size)

EntryLine(name, delay10) == Line("entry", name, delay10, "", 0)

MasterLine(name, tick10) == Line("master", name, tick10, "", 0)

SpeedLine(v) == Line("speed", "", v, "", 0)

\* line.ends_with("{")
ends_with_open(line) == line.kind \in {"nodes", "frames", "tables", "table", "anon", "frame"}

\* line.ends_with("}")
ends_with_close(line) == line.kind \in {"close", "close_in"}

\* name_re.captures(line): "Nodes {" and "Frames {" have its shape too
name_re(line) == line.kind \in {"table", "nodes", "frames"}

\* (baudrate * 1000.0) as u32
baudrate_as_u32(v) == v \div 10

\* slip: the base tick is rounded up
base_tick_ceil(tick10) == (tick10 + 9) \div 10

\* base_tick as u32
base_tick_as_u32(tick10) == tick10 \div 10

\* HashMap::insert by name
Insert(map, v) == {x \in map : x.name # v.name} \cup {v}

LdfOk(ldf) == [ok |-> TRUE, err |-> "", ldf |-> <<ldf>>]

LdfErr(e) == [ok |-> FALSE, err |-> e, ldf |-> <<>>]

\* what a section parser returns: its value and the next unread line
Sect(val, next) == [ok |-> TRUE, err |-> "", val |-> val, next |-> next]

SectErr(e) == [ok |-> FALSE, err |-> e, val |-> {}, next |-> 0]

\* parse_nodes, from line i on
RECURSIVE parse_nodes(_, _, _)
parse_nodes(lines, i, nodes) ==
    IF i > Len(lines) THEN SectErr("Nodes section never ended!")
    ELSE IF lines[i].kind = "close" THEN Sect(nodes, i + 1)
    ELSE IF lines[i].kind = "master"
         THEN parse_nodes(lines, i + 1,
                          [master |-> lines[i].name,
                           base_tick_ms |-> base_tick_as_u32(lines[i].num)])
         ELSE parse_nodes(lines, i + 1, nodes)

\* parse_frames, from line i on
RECURSIVE parse_frames(_, _, _)
parse_frames(lines, i, frames) ==
    IF i > Len(lines) THEN SectErr("Frames section never ended!")
    ELSE IF lines[i].kind = "frame"
         THEN parse_frames(lines, i + 1,
                           Insert(frames, [name |-> lines[i].name, id |-> lines[i].num,
                                           owner |-> lines[i].owner, size |-> lines[i].size]))
    ELSE IF lines[i].kind = "close" THEN Sect(frames, i + 1)
    ELSE parse_frames(lines, i + 1, frames)

\* the loop of parse_schedule_table, from line i on
RECURSIVE parse_table_items(_, _, _)
parse_table_items(lines, i, table) ==
    IF i > Len(lines) THEN SectErr("Schedule_Table section never ended!")
    ELSE IF ends_with_close(lines[i]) THEN Sect(table, i + 1)
    ELSE IF lines[i].kind = "entry"
         THEN parse_table_items(lines, i + 1,
                  [table EXCEPT !.items = Append(@, Item(lines[i].name, lines[i].num))])
         ELSE parse_table_items(lines, i + 1, table)

\* parse_schedule_table: line i - 1 is the line that opened the table
parse_schedule_table(lines, i) ==
    IF name_re(lines[i - 1])
    THEN parse_table_items(lines, i, [name |-> lines[i - 1].name, items |-> <<>>])
    ELSE SectErr("Schedule table name is missing")

\* parse_schedule_tables, from line i on
RECURSIVE parse_schedule_tables(_, _, _)
parse_schedule_tables(lines, i, tables) ==
    IF i > Len(lines) THEN SectErr("Schedule_Tables section never ended!")
    ELSE IF ends_with_open(lines[i])
         THEN LET t == parse_schedule_table(lines, i + 1)
              IN IF t.ok
                 THEN parse_schedule_tables(lines, t.next, Insert(tables, t.val))
                 ELSE t
    ELSE IF lines[i].kind = "close" THEN Sect(tables, i + 1)
    ELSE parse_schedule_tables(lines, i + 1, tables)

\* the loop of parse_ldf_lines, from line i on
RECURSIVE parse_top(_, _, _)
parse_top(lines, i, ldf) ==
    IF i > Len(lines) THEN LdfOk(ldf)
    ELSE IF lines[i].kind = "nodes"
         THEN LET r == parse_nodes(lines, i + 1, [master |-> "", base_tick_ms |-> 0])
              IN IF r.ok THEN parse_top(lines, r.next, [ldf EXCEPT !.nodes = r.val])
                 ELSE LdfErr(r.err)
    ELSE IF lines[i].kind = "frames"
         THEN LET r == parse_frames(lines, i + 1, {})
              IN IF r.ok THEN parse_top(lines, r.next, [ldf EXCEPT !.frames = r.val])
                 ELSE LdfErr(r.err)
    ELSE IF lines[i].kind = "tables"
         THEN LET r == parse_schedule_tables(lines, i + 1, {})
              IN IF r.ok THEN parse_top(lines, r.next, [ldf EXCEPT !.schedule_tables = r.val])
                 ELSE LdfErr(r.err)
    ELSE IF lines[i].kind = "speed"
         THEN parse_top(lines, i + 1, [ldf EXCEPT !.baudrate = baudrate_as_u32(lines[i].num)])
    ELSE parse_top(lines, i + 1, ldf)

parse_ldf_lines(lines) == parse_top(lines, 1, EmptyLdf)

\* the lines an arbitrary input is made of
LineSet ==
    { NodesOpen, FramesOpen, TablesOpen, Close, CloseIn, TableOpen("T1"), Bare("anon"),
      FrameLine("F1", 49, "TheMaster", 2), EntryLine("F1", 100),
      MasterLine("TheMaster", 50), SpeedLine(192000), Bare("other") }

\* the lines of one frame entry: its header, a signal line, its closing brace
RECURSIVE FrameLines(_)
FrameLines(frames) ==
    IF frames = <<>> THEN <<>>
    ELSE <<FrameLine(frames[1].name, frames[1].id, frames[1].owner, frames[1].size),
           Bare("other"), CloseIn>> \o FrameLines(Tail(frames))

RECURSIVE EntryLines(_)
EntryLines(items) ==
    IF items = <<>> THEN <<>>
    ELSE <<EntryLine(items[1].name, items[1].delay)>> \o EntryLines(Tail(items))

\* the lines of one named table: its header, its entries, its closing brace
RECURSIVE TableLines(_)
TableLines(tables) ==
    IF tables = <<>> THEN <<>>
    ELSE <<TableOpen(tables[1].name)>> \o EntryLines(tables[1].items) \o <<CloseIn>>
             \o TableLines(Tail(tables))

\* a well-formed file with the given content
FileLines(f) ==
    <<Bare("other"), SpeedLine(f.speed), NodesOpen, MasterLine(f.master, f.tick),
      Bare("other"), Close, FramesOpen>> \o FrameLines(f.frames) \o <<Close, TablesOpen>>
        \o TableLines(f.tables) \o <<Close>>

Desc(name, id, owner, size) == [name |-> name, id |-> id, owner |-> owner, size |-> size]

Table(name, items) == [name |-> name, items |-> items]

\* the content of the sample file mini.ldf
SampleFile ==
    [some |-> TRUE, speed |-> 192000, master |-> "TheMaster", tick |-> 50,
     frames |-> <<Desc("Slave1LinFrame01", 49, "Slave1", 7),
                  Desc("MasterLinFrame01", 50, "TheMaster", 8),
                  Desc("Slave2LinFrame02", 50, "Slave2", 8)>>,
     tables |-> <<Table("MiniLinRequestScheduleTable", <<Item("MasterReq", 150)>>),
                  Table("MiniLinResponseScheduleTable", <<Item("SlaveResp", 150)>>),
                  Table("TheScheduleTable01", <<Item("Slave1LinFrame01", 150),
                                                Item("Slave2LinFrame02", 100),
                                                Item("MasterLinFrame01", 100)>>)>>]

\* the contents of the well-formed files that are loaded
Files ==
    {SampleFile} \cup
    [some : {TRUE}, speed : {192000, 96000, 192007}, master : {"TheMaster"},
     tick : {50, 25},
     frames : {<<>>, <<Desc("B", 2, "S", 1), Desc("A", 1, "TheMaster", 2)>>},
     tables : {<<>>, <<Table("T2", <<Item("B", 100), Item("A", 25), Item("B", 50)>>),
                       Table("T1", <<>>)>>}]

LdfInit ==
    /\ RegInit
    /\ TaskInit
    /\ EngineIdle
    /\ CodecIdle
    /\ EchoIdle
    /\ SlaveIdle
    /\ SimIdle
    /\ LdfIdle
    /\ MsgIdle
    /\ InitIdle

\* one more line of an arbitrary input, parsed
ldf_push ==
    /\ ~l_file.some
    /\ Len(l_lines) < MaxLines
    /\ \E line \in LineSet :
         /\ l_lines' = Append(l_lines, line)
         /\ l_res' = parse_ldf_lines(Append(l_lines, line))
    /\ UNCHANGED l_file
    /\ UNCHANGED notldf

\* parse_file on a well-formed file
ldf_load ==
    /\ l_lines = <<>>
    /\ ~l_file.some
    /\ \E f \in Files :
         /\ l_file' = f
         /\ l_lines' = FileLines(f)
         /\ l_res' = parse_ldf_lines(FileLines(f))
    /\ UNCHANGED notldf

LdfNext ==
    \/ ldf_push
    \/ ldf_load

LdfSpec == LdfInit /\ [][LdfNext]_vars

\* ------------------------------------------- decoding of control commands
\* the value of "type" in the plugin object
Absent == [kind |-> "absent", s |-> ""]

Str(s) == [kind |-> "string", s |-> s]

Num == [kind |-> "number", s |-> ""]

Null == [kind |-> "null", s |-> ""]

TypeValues == {Absent, Str("lin"), Str("simulator"), Str("can"), Num, Null}

\* an optional number of the document
None == [some |-> FALSE, v |-> 0]

Some(v) == [some |-> TRUE, v |-> v]

\* The documents read from the control socket: the action tag, the baudrate,
\* and the plugin object by its "type", its "base_tick_ms" and the presence
\* of the other fields (common: driver and host_mode; sim: schedule_table_name
\* and database)
Documents ==
    [some : {TRUE}, action : {"start", "stop", "restart"}, baudrate : {None, Some(9600)},
     type : TypeValues, common : BOOLEAN, device_id : BOOLEAN, sim : BOOLEAN,
     base_tick_ms : {None, Some(10)}]

\* Baudrate::default and BaseTick::default
default(opt, dflt) == IF opt.some THEN opt.v ELSE dflt

\* serde_json::from_value::<Lin>
from_value_Lin(doc) ==
    IF doc.common /\ doc.device_id
    THEN [ok |-> TRUE, err |-> "", action |-> doc.action, shape |-> "lin",
          baudrate |-> default(doc.baudrate, 19200),
          base_tick_ms |-> default(doc.base_tick_ms, 5)]
    ELSE MsgErr("missing field")

\* serde_json::from_value::<Simulator>
from_value_Simulator(doc) ==
    IF doc.common /\ doc.sim
    THEN [ok |-> TRUE, err |-> "", action |-> doc.action, shape |-> "simulator",
          baudrate |-> default(doc.baudrate, 19200), base_tick_ms |-> 0]
    ELSE MsgErr("missing field")

\* value.get("type").and_then(|v| v.as_str())
type_as_str(doc) == IF doc.type.kind = "string" THEN <<doc.type.s>> ELSE <<>>

\* Deserialize for Plugin
Plugin_deserialize(doc) ==
    LET t == type_as_str(doc)
    IN IF t = <<"lin">> THEN from_value_Lin(doc)
       ELSE IF t = <<"simulator">> THEN from_value_Simulator(doc)
       ELSE IF t # <<>> THEN MsgErr("unknown plugin type")
       ELSE from_value_Lin(doc)

\* Deserialize for Message: the action tag, then the Config under "bus"
Message_deserialize(doc) ==
    IF doc.action \in {"start", "stop"}
    THEN Plugin_deserialize(doc)
    ELSE MsgErr("unknown variant")

MsgInit ==
    /\ RegInit
    /\ TaskInit
    /\ EngineIdle
    /\ CodecIdle
    /\ EchoIdle
    /\ SlaveIdle
    /\ SimIdle
    /\ LdfIdle
    /\ MsgIdle
    /\ InitIdle

\* the accept branch of serve: read_json_from_socket, then handle_msg or a log line
msg_accept ==
    /\ \E doc \in Documents :
         LET r == Message_deserialize(doc)
         IN /\ m_json' = doc
            /\ m_res' = r
            /\ m_done' = IF r.ok THEN r.action ELSE "none"
    /\ UNCHANGED notmsg

MsgNext == msg_accept

MsgSpec == MsgInit /\ [][MsgNext]_vars

\* ------------------------------------- initialization of the backend library
MaxCtor == 3

\* has_mhydra_device(): Ok(true), Ok(false) or an error of read_dir
DeviceChecks == {"present", "absent", "io_error"}

\* slip: a cell that holds a failure is initialized again
cell_needs_init_retry(cell) == cell \in {"empty", "failed"}

\* OnceCell::get_or_init runs its closure only on an empty cell
cell_needs_init(cell) == cell = "empty"

\* the rest of KvaserLinux::new once the id map is at hand
AfterInit == {"ok", "not_found", "open_failed", "configure_failed"}

Result(r, checked, after_failed) ==
    [res |-> r, checked |-> checked, after_failed |-> after_failed]

InitInit ==
    /\ RegInit
    /\ TaskInit
    /\ EngineIdle
    /\ CodecIdle
    /\ EchoIdle
    /\ SlaveIdle
    /\ SimIdle
    /\ LdfIdle
    /\ MsgIdle
    /\ InitIdle

\* KvaserLinux::new is entered on thread t and checks for the device
new_check(t) ==
    /\ k_pc[t] = "idle"
    /\ k_n < MaxCtor
    /\ k_n' = k_n + 1
    /\ \E dev \in DeviceChecks :
         IF dev = "present"
         THEN /\ k_pc' = [k_pc EXCEPT ![t] = "get_or_init"]
              /\ k_out' = [k_out EXCEPT ![t] = Result("none", TRUE, k_cell = "failed")]
         ELSE /\ k_pc' = k_pc
              /\ k_out' = [k_out EXCEPT ![t] =
                              Result(IF dev = "absent" THEN "no_device" ELSE "io_error",
                                     FALSE, k_cell = "failed")]
    /\ UNCHANGED <<k_cell, k_runs>>
    /\ UNCHANGED notinit

\* KVASER_INIT.get_or_init: thread t starts the closure, which calls
\* linInitializeLibrary; a thread that finds the closure running waits
new_init_begin(t) ==
    /\ k_pc[t] = "get_or_init"
    /\ cell_needs_init(k_cell)
    /\ k_cell' = "running"
    /\ k_runs' = k_runs + 1
    /\ k_pc' = [k_pc EXCEPT ![t] = "closure"]
    /\ UNCHANGED <<k_out, k_n>>
    /\ UNCHANGED notinit

\* the closure ends with the id map or with the error of
\* make_device_id_to_channel_id_map, and the cell keeps it
new_init_end(t) ==
    /\ k_pc[t] = "closure"
    /\ \E r \in {"ok", "failed"} : k_cell' = r
    /\ k_pc' = [k_pc EXCEPT ![t] = "get_or_init"]
    /\ UNCHANGED <<k_runs, k_out, k_n>>
    /\ UNCHANGED notinit

\* get_or_init returns the content of the cell: its error ends KvaserLinux::new,
\* with its id map the channel is looked up, opened and configured
new_finish(t) ==
    /\ k_pc[t] = "get_or_init"
    /\ k_cell \in {"ok", "failed"}
    /\ ~cell_needs_init(k_cell)
    /\ \E r \in AfterInit :
         k_out' = [k_out EXCEPT ![t] =
                      [@ EXCEPT !.res = IF k_cell = "failed" THEN "init_failed" ELSE r]]
    /\ k_pc' = [k_pc EXCEPT ![t] = "idle"]
    /\ UNCHANGED <<k_cell, k_runs, k_n>>
    /\ UNCHANGED notinit

InitNext ==
    \E t \in Threads :
        \/ new_check(t)
        \/ new_init_begin(t)
        \/ new_init_end(t)
        \/ new_finish(t)

InitSpec == InitInit /\ [][InitNext]_vars

\* ================================================================= claims
StopStates == {"stop_wait", "stop_abort"}

\* serve takes its listener.accept() branch in this step
AcceptStep == regpc = "select" /\ cmds # <<>> /\ cmds' = Tail(cmds)  /\ regpc' # "stopped"

\* serve takes its exit_rx.recv() branch in this step
RecvStep == regpc = "select" /\ exit_rx # <<>> /\ exit_rx' = Tail(exit_rx)  /\ regpc' # "stopped"

\* serve has received the TaskResult that task j sent
OwnExitHandled(j) ==
    /\ sent_log[j] # <<>>
    /\ \A k \in 1..Len(exit_rx) : exit_rx[k].from # j

\* C1: a bridge task that ended on its own (its run failed) is joined by the
\* registry: until then its JoinHandle is in the map or in the hands of a
\* handler that awaits it, it is never lost.
C1_EndedTaskIsJoined ==
    \A i \in Inst :
        (Alive /\ pc[i] = "done" /\ res[i] \in Failures) => hs[i] \in {"map", "held", "joined"}

\* C2: while the control loop runs, no JoinHandle created by Start is dropped
\* without its task having been awaited.
C2_NoHandleDroppedUnawaited ==
    regpc # "stopped" => \A i \in Inst : hs[i] # "dropped"

\* C3: the map never holds an entry for a Start whose transport open or
\* backend construction failed.
C3_NoEntryForFailedConstruction ==
    \A id \in Ids : tasks[id] # 0 => res[tasks[id]] \notin {"open_fail", "construct_fail"}

\* C4: handling Stop(id) of a registered id terminates, and when the handler
\* returns (on the graceful and on the forced path) the map has no entry for
\* id and the stopped task has ended.
C4_StopTerminates ==
    /\ [][(regpc \in StopStates /\ regpc' = "select")
            => (tasks'[prev.id] = 0 /\ pc'[prev.inst] \in Ended /\ hs'[prev.inst] = "joined")]_vars
    /\ (regpc \in StopStates) ~> (regpc = "select")

C4_Witness ==
    /\ regpc = "select"
    /\ prev.action = "stop"
    /\ prev.inst # 0
    /\ outcome = "aborted"
    /\ pc[prev.inst] = "aborted"
    /\ tasks[prev.id] = 0

\* C5: Stop(id) of an id without entry returns without waiting, reports
\* "not running" and leaves the map and every bridge task unchanged.
C5_StopUnknownIsNoop ==
    [][(AcceptStep /\ Head(cmds).action = "stop" /\ tasks[Head(cmds).id] = 0)
         => (/\ regpc' = "select"
             /\ outcome' = "not_running"
             /\ UNCHANGED <<tasks, cur, exit_rx>>
             /\ UNCHANGED taskvars)]_vars

C5_Witness ==
    /\ regpc = "select"
    /\ outcome = "not_running"
    /\ prev.action = "stop"
    /\ prev.inst = 0
    /\ \E i \in Inst : pc[i] = "select" /\ tasks[tid[i]] = i

\* Stop(id) is the next command serve accepts and it arrived directly after
\* the Start(id) that serve handled last
StopFollowsStart ==
    /\ regpc = "select"
    /\ cmds # <<>>
    /\ Head(cmds).action = "stop"
    /\ prev.action = "start"
    /\ prev.id = Head(cmds).id

C7_NoAbortWhenResponsive ==
    [][(regpc = "stop_wait" /\ regpc' = "stop_abort") => cur \in slow]_vars

C7_Witness ==
    /\ regpc = "select"
    /\ prev.action = "stop"
    /\ prev.inst # 0
    /\ prev.inst \notin slow
    /\ outcome = "exited"
    /\ res[prev.inst] = "ok"
    /\ hs[prev.inst] = "joined"

\* C8: receiving the notification of a bridge that ended with an error
\* leaves the map entry of every other bridge unchanged.
C8_ErrorLeavesOtherBridgesAlone ==
    [][(RecvStep /\ Head(exit_rx).res \in Failures)
         => \A id \in Ids : tasks[id] # Head(exit_rx).from => tasks'[id] = tasks[id]]_vars

C10_MasterOneCallPerFrame ==
    (e_role = "master" /\ e_ev.kind = "frame" /\ parse_packet(e_ev.pkt).ok)
    => LET f == parse_packet(e_ev.pkt)
       IN /\ Len(e_calls) = 1
          /\ e_calls[1].id = f.id
          /\ f.msg = <<>> => e_calls[1] = Call("request_update", f.id, <<>>)
          /\ f.msg # <<>> => e_calls[1] = Call("write", f.id, f.msg)

\* id 0x31 with an empty decoded payload: request_update(0x31)
C10_Witness ==
    /\ e_role = "master"
    /\ e_ev.kind = "frame"
    /\ parse_packet(e_ev.pkt).ok
    /\ parse_packet(e_ev.pkt).msg = <<>>
    /\ e_calls = <<Call("request_update", 49, <<>>)>>

\* the master handler made this backend call for the frame serviced last
MasterCalled(op) ==
    /\ e_role = "master"
    /\ e_ev.kind = "frame"
    /\ e_calls # <<>>
    /\ e_calls[1].op = op

\* C11: in a master-role bridge a failure of request_update is only logged:
\* the bridge stays Running and has reported nothing.
C11_RequestUpdateFailureNotFatal ==
    (MasterCalled("request_update") /\ ~e_ev.bok) => (e_pc = "select" /\ e_sent = <<>>)

\* C12: in a master-role bridge a failure of write ends the loop with an
\* error, and that error is what the completion notification carries.
C12_MasterWriteFailureIsFatal ==
    (MasterCalled("write") /\ ~e_ev.bok) => (e_pc = "errored" /\ e_sent = <<"backend">>)

C12_Witness ==
    /\ MasterCalled("write")
    /\ e_calls = <<Call("write", 49, <<10, 20, 30>>)>>
    /\ ~e_ev.bok
    /\ e_pc = "errored"
    /\ e_sent = <<"backend">>

\* C13: in a slave-role bridge every decoded inbound frame causes exactly one
\* update(frame), whatever its payload length, and the bridge stays Running
\* whatever update returns.
C13_SlaveAlwaysUpdates ==
    (e_role = "slave" /\ e_ev.kind = "frame" /\ parse_packet(e_ev.pkt).ok)
    => LET f == parse_packet(e_ev.pkt)
       IN /\ e_calls = <<Call("update", f.id, f.msg)>>
          /\ e_pc = "select"
          /\ e_sent = <<>>

\* update of an empty payload failed, after an earlier event had been serviced
C13_Witness ==
    /\ e_role = "slave"
    /\ e_ev.kind = "frame"
    /\ e_calls = <<Call("update", 49, <<>>)>>
    /\ ~e_ev.bok
    /\ e_pc = "select"
    /\ e_n >= 2

\* C14: in both roles a frame the codec rejects causes no backend call and
\* leaves the bridge Running, and a valid frame that arrives after a rejected
\* one is dispatched to the backend as usual.
C14_RejectedFrameIsDropped ==
    /\ (e_ev.kind = "frame" /\ ~parse_packet(e_ev.pkt).ok)
         => (e_calls = <<>> /\ e_pc = "select" /\ e_sent = <<>>)
    /\ (e_bad /\ e_ev.kind = "frame" /\ parse_packet(e_ev.pkt).ok)
         => (Len(e_calls) = 1 /\ e_calls[1].id = parse_packet(e_ev.pkt).id)
    /\ (e_bad /\ e_sent # <<>>) => e_ev.kind # "frame" \/ parse_packet(e_ev.pkt).ok

\* a valid frame is dispatched after a rejected one
C14_Witness ==
    /\ e_bad
    /\ e_ev.kind = "frame"
    /\ parse_packet(e_ev.pkt).ok
    /\ Len(e_calls) = 1
    /\ e_pc = "select"

\* C15: in both roles a failed transport read and a failed transport write
\* end the bridge with an error, which is reported, and the bridge services
\* nothing after it.
C15_TransportFailureIsFatal ==
    /\ [](~e_ev.tok => (e_pc = "errored" /\ e_sent = <<"transport">>))
    /\ [][e_pc = "errored" => UNCHANGED enginevars]_vars

\* a frame read from the backend could not be transmitted
C15_Witness ==
    /\ e_ev.kind = "tick"
    /\ ~e_ev.tok
    /\ e_tx # <<>>
    /\ e_pc = "errored"
    /\ e_sent = <<"transport">>

\* the engine services a tick, an inbound frame or a failed read in this step
ServicesEvent == e_n' = e_n + 1

\* C16 as claimed: once the cancel trigger has fired and the bridge is at its
\* loop boundary, no further event is serviced: no backend poll, no transmit
\* and no backend call, even when a tick or a frame is ready as well.
C16_NoEventAfterCancel ==
    [][(e_cancel /\ e_pc = "select") => ~ServicesEvent]_vars

\* C16 as amended: the iteration that takes the cancellation branch exits with
\* success at once, without poll, transmit or backend call, and nothing is
\* serviced after it.
C16_CancelBranchExitsAtOnce ==
    /\ [][(e_pc = "select" /\ e_pc' = "stopped")
            => (/\ e_cancel
                /\ ~ServicesEvent
                /\ e_calls' = <<>>
                /\ e_tx' = <<>>
                /\ e_sent' = Append(e_sent, "ok"))]_vars
    /\ [][e_pc = "stopped" => UNCHANGED enginevars]_vars

\* the bridge exited on cancellation while a tick or a frame could be serviced
C16_Witness ==
    /\ e_pc = "stopped"
    /\ e_ev.kind = "cancel"
    /\ e_sent = <<"ok">>
    /\ e_n >= 1
    /\ e_n < MaxEvents

\* C17: the channel of a hardware backend that was opened is closed exactly
\* once when its bridge has ended, by cancellation, by a fatal error or by a
\* forced abort, and also when the configuration of the channel was rejected.
C17_BackendReleasedExactlyOnce ==
    /\ e_closes <= 1
    /\ e_lin = "open" => (e_closes = 0 /\ e_pc \in {"select", "blocked"})
    /\ e_lin = "closed" => e_closes = 1
    /\ (e_pc \in {"stopped", "errored", "aborted"} /\ e_lin # "none")
         => (e_lin = "closed" /\ e_closes = 1)

\* a bridge suspended in a transport write was aborted
C17_Witness ==
    /\ e_pc = "aborted"
    /\ e_ev.kind = "abort"
    /\ e_lin = "closed"
    /\ e_closes = 1

\* C18: decode returns an error exactly when the input has fewer than 8
\* bytes, or when the bytes from offset 8 are non-empty and fewer than the
\* declared length (byte 4); in particular every 8-byte input is accepted.
C18_DecodeRejectsExactly ==
    LET rest == Len(c_pkt) - HeaderLen
    IN /\ ~c_res.ok <=> (Len(c_pkt) < HeaderLen \/ (rest > 0 /\ c_pkt[5] > rest))
       /\ Len(c_pkt) = HeaderLen => (c_res.ok /\ c_res.msg = <<>>)

\* 8 bytes with a declared length of 127 are accepted
C18_Witness ==
    /\ Len(c_pkt) = HeaderLen
    /\ c_pkt[5] = 127
    /\ c_res.ok
    /\ c_res.msg = <<>>

\* C19: the wire packet of a frame with id and payload of length L, followed
\* by any pad bytes, decodes to that id and exactly those L payload bytes; for
\* L = 0 the decoded payload is empty whatever the padding.
C19_DecodeRecoversFrame ==
    c_frame.some => (c_res.ok /\ c_res.id = c_frame.id /\ c_res.msg = c_frame.msg)

\* L = 0 with padding present
C19_Witness ==
    /\ c_frame = SomeFrame(4660, <<>>)
    /\ Len(c_pkt) > HeaderLen
    /\ c_res = ParseOk(4660, <<>>)

\* C20: a try_read of the decorator that follows update(X) and yields id X
\* returns that id with an empty payload; a frame whose id was never passed to
\* update is returned unchanged; an absent read stays absent.
C20_EchoIsBlanked ==
    n_ret.op = "try_read" =>
        /\ n_ret.armed => n_ret.out = SomeFrame(n_ret.got.id, <<>>)
        /\ (n_ret.got.some /\ n_ret.got.id \notin n_ever) => n_ret.out = n_ret.got
        /\ ~n_ret.got.some => n_ret.out = NoFrame

\* the echo of update(0x31) is blanked while another id has been updated too
C20_Witness ==
    /\ n_ret.op = "try_read"
    /\ n_ret.armed
    /\ n_ret.got = SomeFrame(49, <<1, 2>>)
    /\ n_ret.out = SomeFrame(49, <<>>)
    /\ 18 \in n_ever

\* C21: the decorator suppresses an echo once: when the target yields a frame
\* whose id has not been passed to update since that id was last read back,
\* the frame is returned with its payload intact.
C21_SuppressionIsOneShot ==
    (n_ret.op = "try_read" /\ n_ret.got.some /\ ~n_ret.armed) => n_ret.out = n_ret.got

\* C26: every slave bridge, hardware or simulator, blanks the payload of a
\* frame it reads back when the bridge has passed that id to update before.
C26_EverySlaveBridgeBlanksEchoes ==
    (b_ret.op = "try_read" /\ b_ret.got.some /\ b_ret.armed) => b_ret.out.msg = <<>>

\* the selected table exists, has entries, and all of them name known descriptors
AllKnown ==
    /\ s_cfg.table.found
    /\ s_cfg.table.items # <<>>
    /\ \A i \in 1..Len(s_cfg.table.items) : s_cfg.table.items[i].name \in DOMAIN SimDescriptors

\* the entry the last poll looked at
PolledEntry == s_cfg.table.items[s_last.index + 1]

\* the last poll moved table_index on by one and reset elapsed_in_slot
Advanced ==
    /\ s_index = (s_last.index + 1) % Len(s_cfg.table.items)
    /\ s_elapsed = 0

\* the last poll kept table_index and added the base tick to elapsed_in_slot
Accumulated ==
    /\ s_index = s_last.index
    /\ s_elapsed = s_last.elapsed + s_cfg.tick

\* the delays 15 ms / 10 ms polled every 5 ms
Sample1510 ==
    /\ s_cfg.tick = 5
    /\ s_cfg.table = SomeTable(<<Item("Slave1LinFrame01", 150), Item("MasterLinFrame01", 100)>>)

\* polls 0, 3, 5, 8, 10, ... alternating entry 0 and entry 1
Pattern1510(n) ==
    {<<q, 0>> : q \in {k \in 0..(n - 1) : k % 5 = 0}}
        \cup {<<q, 1>> : q \in {k \in 0..(n - 1) : k % 5 = 3}}

\* C22 as stated: after a poll of a table of known descriptors with t > 0, a
\* frame was returned exactly when elapsed_in_slot was 0, and the index
\* advanced exactly when elapsed_in_slot + t reached the entry's delay.
C22_AdvancesAtDelay ==
    (s_polls > 0 /\ AllKnown) =>
        /\ s_out.some <=> s_last.elapsed = 0
        /\ IF (s_last.elapsed + s_cfg.tick) * 10 >= PolledEntry.delay
           THEN Advanced ELSE Accumulated
        /\ Sample1510 => s_emits = Pattern1510(s_polls)

\* C22 (amended): the same for a table with at least one entry, with the
\* entry's delay truncated to whole milliseconds; for 15/10 ms and t = 5 ms the frames come at polls
\* 0, 3, 5, 8, 10, ... alternating entry 0 and entry 1.
C22_AdvancesAtTruncatedDelay ==
    (s_polls > 0 /\ AllKnown) =>
        /\ s_out.some <=> s_last.elapsed = 0
        /\ IF s_last.elapsed + s_cfg.tick >= PolledEntry.delay \div 10
           THEN Advanced ELSE Accumulated
        /\ Sample1510 => s_emits = Pattern1510(s_polls)

C22_Witness ==
    /\ Sample1510
    /\ s_polls = 11
    /\ s_emits = {<<0, 0>>, <<3, 1>>, <<5, 0>>, <<8, 1>>, <<10, 0>>}

\* C23: every poll of a selected table advances slot time: it adds the base
\* tick to elapsed_in_slot or moves on to the next entry, also when no frame
\* can be built for the current entry.
C23_EveryPollAdvancesSlotTime ==
    (s_polls > 0 /\ s_cfg.table.found) => s_last.timed

\* C24: a frame returned by the emitter has the id of the descriptor named by
\* the current table entry; its payload is 0, 1, .., size-1 when the owner is
\* the master node and empty otherwise.
C24_FrameOfCurrentEntry ==
    s_out.some =>
        /\ PolledEntry.name \in DOMAIN SimDescriptors
        /\ LET desc == SimDescriptors[PolledEntry.name]
           IN /\ s_out.id = desc.id
              /\ desc.owner = MasterNode =>
                    /\ Len(s_out.msg) = desc.size
                    /\ \A i \in 1..desc.size : s_out.msg[i] = i - 1
              /\ desc.owner # MasterNode => s_out.msg = <<>>

C24_Witness ==
    /\ s_out = SomeFrame(50, <<0, 1, 2>>)
    /\ PolledEntry.name = "MasterLinFrame01"
    /\ <<0, 0>> \in s_emits

\* C25: the passive stub never returns a frame and accepts every write and
\* request_update, so a master bridge on it passes nothing to the network
\* transport and none of its events ends it with a backend error.
C25_StubIsPassive ==
    /\ s_stub.out = NoFrame
    /\ s_stub.tx = <<>>
    /\ s_stub.ok

C25_Witness ==
    /\ s_stub.op = "write"
    /\ s_stub.ok

\* the blocks left open after the first i - 1 lines, innermost last, by brace
\* matching: a line that ends with "{" opens a block, a closing brace line
\* closes the innermost open block
RECURSIVE OpenBlocks(_, _, _)
OpenBlocks(lines, i, stack) ==
    IF i > Len(lines) THEN stack
    ELSE IF ends_with_open(lines[i])
         THEN LET k == lines[i].kind
                  b == IF stack = <<>> /\ k \in {"nodes", "frames", "tables"} THEN k
                       ELSE IF stack # <<>> /\ stack[Len(stack)] = "tables" /\ k = "table"
                            THEN "table" ELSE "body"
              IN OpenBlocks(lines, i + 1, Append(stack, b))
    ELSE IF lines[i].kind \in {"close", "close_in"} /\ stack # <<>>
         THEN OpenBlocks(lines, i + 1, SubSeq(stack, 1, Len(stack) - 1))
    ELSE OpenBlocks(lines, i + 1, stack)

\* the input ends inside a Nodes, Frames or Schedule_tables block or a named table
BlockOpenAtEnd(lines) ==
    LET stack == OpenBlocks(lines, 1, <<>>)
    IN \E j \in 1..Len(stack) : stack[j] \in {"nodes", "frames", "tables", "table"}

\* C27: when the input ends while a Nodes, Frames or Schedule_tables block or
\* a named table has not seen its own closing brace line, the loader returns
\* an error and no model.
C27_OpenBlockIsAnError == BlockOpenAtEnd(l_lines) => (~l_res.ok /\ l_res.ldf = <<>>)

\* the set of the elements of a sequence
Range(seq) == {seq[j] : j \in 1..Len(seq)}

\* the frames and tables of the model are those of the file, items in file order
SameFramesAndTables ==
    LET ldf == l_res.ldf[1]
    IN /\ ldf.nodes.master = l_file.master
       /\ ldf.frames = Range(l_file.frames)
       /\ Cardinality(ldf.frames) = Len(l_file.frames)
       /\ ldf.schedule_tables = Range(l_file.tables)
       /\ Cardinality(ldf.schedule_tables) = Len(l_file.tables)

C29_DecodesByType ==
    m_json.some =>
        /\ (m_res.ok /\ m_json.type \in {Absent, Str("lin")}) => m_res.shape = "lin"
        /\ (m_res.ok /\ m_json.type = Str("simulator")) => m_res.shape = "simulator"
        /\ m_json.type \notin {Absent, Str("lin"), Str("simulator")} =>
              (~m_res.ok /\ m_done = "none")
        /\ (m_res.ok /\ ~m_json.baudrate.some) => m_res.baudrate = 19200
        /\ (m_res.ok /\ m_res.shape = "lin" /\ ~m_json.base_tick_ms.some) =>
              m_res.base_tick_ms = 5

\* C30 as stated: linInitializeLibrary runs at most once, and a construction
\* begun after the initialization failed ends with the cached failure.
C30_CachedFailureEveryTime ==
    /\ k_runs <= 1
    /\ \A t \in Threads :
         (k_out[t].after_failed /\ k_pc[t] = "idle") => k_out[t].res = "init_failed"

\* C30 (amended): linInitializeLibrary runs at most once; a construction begun
\* after the initialization failed fails, with the cached failure whenever it
\* gets past the check for the device, and the initialization is not run again.
C30_InitOnceFailureCached ==
    /\ [](/\ k_runs <= 1
          /\ \A t \in Threads :
               (k_out[t].after_failed /\ k_pc[t] = "idle") =>
                  /\ k_out[t].res \in {"init_failed", "no_device", "io_error"}
                  /\ k_out[t].checked => k_out[t].res = "init_failed")
    /\ [][k_cell = "failed" => (k_cell' = "failed" /\ k_runs' = k_runs)]_vars

C30_Witness ==
    /\ k_runs = 1
    /\ k_cell = "failed"
    /\ \E t \in Threads :
         /\ k_pc[t] = "idle"
         /\ k_out[t] = Result("init_failed", TRUE, TRUE)

\* C31 as stated: after a tick on which try_read produced a frame, one
\* transport frame with that id and payload has been passed to the transport;
\* after a tick on which try_read was absent, none.
C31_EveryReadIsTransmitted ==
    e_ev.kind = "tick" =>
        IF e_read.some
        THEN e_tx = <<[id |-> e_read.id, msg |-> e_read.msg]>>
        ELSE e_tx = <<>>

\* C31 (amended): the same for a frame that fits a transport frame, a payload
\* of at most 8 bytes and an id of at most 29 bits; a frame that does not fit
\* is dropped without a transmit and the bridge goes on. The next event is
\* serviced only after the transmit has returned.
C31_EveryFittingReadIsTransmitted ==
    /\ [](e_ev.kind = "tick" =>
            IF e_read.some /\ Len(e_read.msg) <= 8 /\ e_read.id < 536870912
            THEN e_tx = <<[id |-> e_read.id, msg |-> e_read.msg]>>
            ELSE e_tx = <<>> /\ e_pc # "errored")
    /\ [][e_pc = "blocked" => e_n' = e_n]_vars

C31_Witness ==
    /\ e_ev.kind = "tick"
    /\ e_read = SomeFrame(49, <<>>)
    /\ e_tx = <<[id |-> 49, msg |-> <<>>]>>
    /\ e_pc = "select"
    /\ e_n = 2

\* serve handles, in this step, a Start for an id whose entry is a task that
\* has not ended
ReplacingStart ==
    /\ AcceptStep
    /\ Head(cmds).action = "start"
    /\ tasks[Head(cmds).id] # 0
    /\ pc[tasks[Head(cmds).id]] \notin Ended

\* C32 as stated: a Start for an id that has a live handle leaves the cancel
\* trigger of the prior task unfired.
C32_StartLeavesPriorUncancelled ==
    [][ReplacingStart => cancel'[tasks[Head(cmds).id]] = "open"]_vars

\* C32 (amended): such a Start replaces the entry and drops the prior Task:
\* its handle is detached unawaited and its cancel sender is dropped, which
\* makes the cancel receiver of the prior task resolve; the Start itself does
\* not end the prior task, and a sender once dropped stays so.
C32_StartDropsPriorSender ==
    /\ [][ReplacingStart =>
            LET old == tasks[Head(cmds).id]
            IN /\ tasks'[Head(cmds).id] \notin {0, old}
               /\ hs'[old] = "dropped"
               /\ cancel'[old] = "dropped"
               /\ pc'[old] = pc[old]]_vars
    /\ [][\A i \in Inst : cancel[i] = "dropped" => cancel'[i] = "dropped"]_vars

\* the prior task of a replaced entry has left its loop on the cancel branch
C32_Witness ==
    /\ regpc = "select"
    /\ \E i \in Inst :
         /\ pc[i] = "done"
         /\ res[i] = "ok"
         /\ hs[i] = "dropped"
         /\ cancel[i] = "dropped"
         /\ tasks[tid[i]] \notin {0, i}

\* C33: a completion notification makes serve remove and await only the
\* handle of the task instance that sent it.
C33_NotificationReapsOwnHandle ==
    [][RecvStep => (cur' # cur => cur' = Head(exit_rx).from)]_vars

\* C34: serve never waits without bound on a task that is still running: the
\* unbounded await of the notification branch is only ever entered for a task
\* that has ended, so every later command and the shutdown signal are handled.
C34_AwaitsOnlyEndedTasks ==
    regpc = "await_exit" => pc[cur] \in Ended

\* C35: the emitter never reads outside the selected table: at every poll
\* table_index is below the table length, and elapsed_in_slot is 0 or less
\* than the delay of the current entry.
C35_PollStaysInsideTable ==
    (s_polls > 0 /\ s_cfg.table.found) =>
        /\ ~s_last.oob
        /\ s_last.index < Len(s_cfg.table.items)
        /\ s_last.elapsed = 0 \/ s_last.elapsed * 10 < PolledEntry.delay

\* C36 (as stated): update passes the frame unchanged to the target, and the
\* frame id enters the suppression set only when the target's update
\* succeeded; a failed update leaves the set unchanged.
C36_RecordsOnlyOnSuccess ==
    [][n_ret'.op = "update" =>
          /\ n_ret'.fwd = <<n_ret'.arg>>
          /\ n_ret'.ok => n_updated' = n_updated \cup {n_ret'.arg.id}
          /\ ~n_ret'.ok => n_updated' = n_updated]_vars

\* C36 (amended): update passes the frame unchanged to the target, and the
\* frame id is in the suppression set afterwards, next to the ids recorded
\* before, whatever the target's update returned.
C36_RecordsBeforeForwarding ==
    [][n_ret'.op = "update" =>
          /\ n_ret'.fwd = <<n_ret'.arg>>
          /\ n_updated' = n_updated \cup {n_ret'.arg.id}]_vars

\* a failed update whose id is the only one recorded
C36_Witness ==
    /\ n_ret.op = "update"
    /\ ~n_ret.ok
    /\ n_ret.arg = SomeFrame(18, <<1, 2>>)
    /\ n_ret.fwd = <<SomeFrame(18, <<1, 2>>)>>
    /\ n_updated = {18}
====
